---- MODULE Spec2Model ----
(***************************************************************************)
(* Model of the DEM terrain tiler: the tiling utilities of src/tiling.js,  *)
(* the resampler, region extractor and encoders of src/terrain-encoder.js  *)
(* and the tile generation run of src/pipeline.js.                         *)
(*                                                                         *)
(* Numbers.  Longitudes and latitudes are fixed-point integers in          *)
(* micro-degrees (Deg units per degree).  The two transcendental           *)
(* expressions of tiling.js are tabulated from their IEEE double values:   *)
(*   LnTanSecOverPi : ln(tan(latRad) + 1/cos(latRad)) / PI, times 10^6,    *)
(*                    for the whole-degree latitudes 0..85 (odd function); *)
(*   AtanSinhPi     : atan(sinh(PI * (1 - 2k/32))) * 180 / PI in           *)
(*                    micro-degrees for k = 0..32.                         *)
(* Everything around them (the scaling by 2^zoom, the floors, the loops)   *)
(* is computed as the code computes it.  Latitudes of the model are whole  *)
(* degrees in -85..85, where the rounded tables decide every floor and     *)
(* every comparison exactly as the doubles do.                             *)
(***************************************************************************)
EXTENDS Integers, Sequences, FiniteSets, TLC

(* ---------------------------- bounds ----------------------------------- *)

\* largest zoom level a call is made with
MaxZoom == 3

\* micro-degrees per degree
Deg == 10^6

\* longitudes and latitudes (whole degrees) the bounding boxes are drawn from
Lons == {-180, -90, -10, 0, 10, 180}
Lats == {-85, -10, 0, 10, 85}

\* longitudes (every 9 degrees, which includes the tile edges of the zooms
\* up to 3) and latitudes (every whole degree) the points are drawn from
PointLons == { 9 * k - 180 : k \in 0..40 }
PointLats == -85..85

\* coordinates the rectangles handed to bboxIntersects are drawn from
Coords == {0, 10, 20}

\* largest width, height and offset of a raster or a window of extractRegion
MaxDim == 3

\* largest width and height resampleElevationData is asked for
MaxTarget == 4

\* largest maxLevel a run is configured with
MaxLevel == 2
\* the pushes of one unending tile enumeration that are counted
MaxListed == 3

VARIABLES
  pc,          \* which call has been made
  bbox,        \* <<minLon, minLat, maxLon, maxLat>>, micro-degrees
  minZoom, maxZoom,
  zoom,        \* zoom argument of a single-level call
  tiles,       \* result of getTilesInBounds(bbox, zoom)
  scheme,      \* result of generateTilingScheme(bbox, minZoom, maxZoom)
  point,       \* [lon, lat, zoom], the arguments of lonLatToTile
  tile,        \* a tile coordinate: result of lonLatToTile, argument of the rest
  bounds,      \* result of tileToBounds(tile.x, tile.y, tile.z)
  parent,      \* result of getParentTile(tile): <<>> for null, <<p>> otherwise
  children,    \* result of getChildTiles(tile)
  siblings,    \* result of getChildTiles(getParentTile(tile))
  childParents, \* getParentTile of each element of children
  boxes,       \* <<bbox1, bbox2>>, the arguments of bboxIntersects
  hits,        \* [ab, ba]: bboxIntersects(bbox1, bbox2), bboxIntersects(bbox2, bbox1)
  source,      \* [kind, data]: the typed array sourceData of extractRegion
  region,      \* [sourceWidth, x, y, width, height], its other arguments
  result,      \* the Float32Array extractRegion returns
  rsSource,    \* the typed array sourceData of resampleElevationData
  rsDims,      \* [sourceWidth, sourceHeight, targetWidth, targetHeight]
  rsResult,    \* the Float32Array resampleElevationData returns
  encArgs,     \* [elevationData, width, height, minElevation, maxElevation,
               \*  bounds]: the arguments of the encode functions
  encResult,   \* what the encode function called has built
  options,     \* [outputDir, tileSize, maxLevel, minLevel] of a run
  dem,         \* [data, metadata]: what readDEMData decodes from the input
  tilingScheme, \* generateTilingScheme(metadata.bbox, 0, maxLevel)
  runZoom,     \* the zoom of the outer loop of the run
  tileIdx,     \* position of the inner loop in tilingScheme.levels[runZoom]
  tilesProcessed,
  tileElevationData, \* what extractTileData returned for the current tile
  pngBuffer,   \* what encodeHeightmapPNG returned for the current tile
  disk,        \* [dirs, files]: the directories and files below outputDir
  trace,       \* the steps of the run so far, each <<step, tile>>
  argv,        \* the command line given to run(argv), as the options it holds
  opts,        \* program.opts()
  calls,       \* the calls run has made, in order
  shown        \* what run has written to the console

schemeVars == <<bbox, minZoom, maxZoom, zoom, tiles, scheme>>
pointVars == <<point, bounds>>
quadVars == <<parent, children, siblings, childParents>>
boxVars == <<boxes, hits>>
regionVars == <<source, region, result>>
resampleVars == <<rsSource, rsDims, rsResult>>
encodeVars == <<encArgs, encResult>>
encoderVars == <<resampleVars, encodeVars>>
runVars == <<options, dem, tilingScheme, runZoom, tileIdx, tilesProcessed,
             tileElevationData, pngBuffer, disk, trace>>
cliVars == <<argv, opts, calls, shown>>
vars == <<pc, schemeVars, pointVars, tile, quadVars, boxVars, regionVars,
          encoderVars, runVars, cliVars>>

\* the variables the calls of one group of functions leave alone
tilingVars == <<schemeVars, pointVars, tile, quadVars, boxVars>>
restOfScheme == <<pointVars, tile, quadVars, boxVars, regionVars, encoderVars, runVars, cliVars>>
restOfPoint == <<schemeVars, quadVars, boxVars, regionVars, encoderVars, runVars, cliVars>>
restOfQuad == <<schemeVars, pointVars, boxVars, regionVars, encoderVars, runVars, cliVars>>
restOfBox == <<schemeVars, pointVars, tile, quadVars, regionVars, encoderVars, runVars, cliVars>>
restOfRegion == <<schemeVars, pointVars, tile, quadVars, boxVars, encoderVars, runVars, cliVars>>

(* ------------------------ tiling.js: projection ------------------------ *)

\* round(ln(tan(r) + 1/cos(r)) / PI * 10^6), r = lat * PI / 180, lat = 0..85
LnTanSecTable ==
  << 0, 5556, 11113, 16674, 22240, 27813, 33394, 38986, 44590, 50207,
     55840, 61490, 67159, 72850, 78563, 84302, 90067, 95861, 101687, 107545,
     113439, 119370, 125341, 131355, 137413, 143518, 149673, 155881, 162145,
     168466, 174850, 181297, 187813, 194401, 201063, 207804, 214629, 221540,
     228543, 235642, 242842, 250148, 257566, 265101, 272761, 280550, 288476,
     296548, 304771, 313156, 321710, 330445, 339370, 348496, 357837, 367404,
     377213, 387280, 397620, 408254, 419201, 430484, 442128, 454161, 466613,
     479519, 492918, 506852, 521372, 536533, 552400, 569046, 586559, 605039,
     624606, 645402, 667599, 691408, 717089, 744973, 775481, 809173, 846802,
     889428, 938600, 996724 >>

\* Math.log(Math.tan(latRad) + 1 / Math.cos(latRad)) / Math.PI, times 10^6;
\* lat in micro-degrees, a whole number of degrees
LnTanSecOverPi(lat) ==
  IF lat < 0 THEN 0 - LnTanSecTable[((0 - lat) \div Deg) + 1]
             ELSE LnTanSecTable[(lat \div Deg) + 1]

\* round(atan(sinh(PI * (1 - 2k/32))) * 180 / PI * 10^6), k = 0..32
AtanSinhTable ==
  << 85051129, 83979259, 82676285, 81093214, 79171335, 76840816, 74019543,
     70612614, 66513260, 61606396, 55776573, 48922499, 40979898, 31952162,
     21943046, 11178402, 0, -11178402, -21943046, -31952162, -40979898,
     -48922499, -55776573, -61606396, -66513260, -70612614, -74019543,
     -76840816, -79171335, -81093214, -82676285, -83979259, -85051129 >>

\* Math.atan(Math.sinh(Math.PI * (1 - 2 * k / n))) * 180 / Math.PI in
\* micro-degrees, for n a power of two up to 32 and 0 <= k <= n
AtanSinhPi(k, n) == AtanSinhTable[(k * ((Len(AtanSinhTable) - 1) \div n)) + 1]

Tile(x, y, z) == [x |-> x, y |-> y, z |-> z]

\* the variant that wraps x into the grid with a modulo
lonLatToTile_wrapX(ln, lt, zm) ==
  LET n == 2^zm
      x == ((ln + 180 * Deg) \div ((360 * Deg) \div n)) % n
      y == ((Deg - LnTanSecOverPi(lt)) * n) \div (2 * Deg)
  IN  Tile(x, y, zm)

\* the variant that drops the "1 -" of the y formula (y grows northward)
lonLatToTile_noFlip(ln, lt, zm) ==
  LET n == 2^zm
      x == (ln + 180 * Deg) \div ((360 * Deg) \div n)
      y == ((Deg + LnTanSecOverPi(lt)) * n) \div (2 * Deg)
  IN  Tile(x, y, zm)

\* x = floor((lon + 180) / 360 * n): 360 * Deg is a multiple of n, so the
\* quotient by (360 * Deg) / n is the same floor (and stays within 32 bits);
\* y = floor((1 - ln(tan + sec) / PI) / 2 * n)
lonLatToTile(ln, lt, zm) ==
  LET n == 2^zm
      x == (ln + 180 * Deg) \div ((360 * Deg) \div n)
      y == ((Deg - LnTanSecOverPi(lt)) * n) \div (2 * Deg)
  IN  Tile(x, y, zm)

tileToBounds(tx, ty, zm) ==
  LET n == 2^zm
  IN  [minX |-> tx * ((360 * Deg) \div n) - 180 * Deg,
       minY |-> AtanSinhPi(ty + 1, n),
       maxX |-> (tx + 1) * ((360 * Deg) \div n) - 180 * Deg,
       maxY |-> AtanSinhPi(ty, n)]

(* --------------------- tiling.js: tile enumeration --------------------- *)

\* the nested loops
\*   for (let x = minTile.x; x <= maxTile.x; x++)
\*     for (let y = minTile.y; y <= maxTile.y; y++) tiles.push({ x, y, z })
\* push nx * ny tiles, x outer and y inner: the i-th push (from 0) is column
\* i div ny and row i mod ny of the range; an empty range pushes nothing
TileRange(minTile, maxTile, z) ==
  LET nx == IF maxTile.x >= minTile.x THEN maxTile.x - minTile.x + 1 ELSE 0
      ny == IF maxTile.y >= minTile.y THEN maxTile.y - minTile.y + 1 ELSE 0
  IN  [i \in 1..(nx * ny) |->
         Tile(minTile.x + ((i - 1) \div ny), minTile.y + ((i - 1) % ny), z)]

\* the variant that forgets the axis flip (south-west and north-east corners)
getTilesInBounds_noAxisFlip(b, z) ==
  TileRange(lonLatToTile(b[1], b[2], z), lonLatToTile(b[3], b[4], z), z)

\* minTile is the tile of (minLon, maxLat), maxTile the tile of (maxLon, minLat)
getTilesInBounds(b, z) ==
  TileRange(lonLatToTile(b[1], b[4], z), lonLatToTile(b[3], b[2], z), z)

\* the scheme object before the loop
EmptyScheme(b, lo, hi) ==
  [bbox |-> b, minZoom |-> lo, maxZoom |-> hi,
   levels |-> [k \in {} |-> <<>>], totalTiles |-> 0]

\* for (let zoom = minZoom; zoom <= maxZoom; zoom++) { ... }
RECURSIVE SchemeLoop(_, _)
SchemeLoop(s, z) ==
  IF z <= s.maxZoom
    THEN LET t == getTilesInBounds(s.bbox, z)
         IN  SchemeLoop([s EXCEPT
                           !.levels = [k \in DOMAIN s.levels \cup {z} |->
                                         IF k = z THEN t ELSE s.levels[k]],
                           !.totalTiles = s.totalTiles + Len(t)], z + 1)
    ELSE s

\* the variant whose loop stops one level early
generateTilingScheme_exclusive(b, lo, hi) ==
  LET s == SchemeLoop(EmptyScheme(b, lo, hi - 1), lo)
  IN  [s EXCEPT !.maxZoom = hi]

generateTilingScheme(b, lo, hi) == SchemeLoop(EmptyScheme(b, lo, hi), lo)

\* the variant whose last test is not strict
bboxIntersects_touchSouth(bbox1, bbox2) ==
  ~ (  bbox1[3] < bbox2[1]
    \/ bbox1[1] > bbox2[3]
    \/ bbox1[4] < bbox2[2]
    \/ bbox1[2] >= bbox2[4] )

\* the variant whose first test is not strict
bboxIntersects_touchWest(bbox1, bbox2) ==
  ~ (  bbox1[3] <= bbox2[1]
    \/ bbox1[1] > bbox2[3]
    \/ bbox1[4] < bbox2[2]
    \/ bbox1[2] > bbox2[4] )

\* closed-interval overlap of [minX, minY, maxX, maxY] rectangles
bboxIntersects(bbox1, bbox2) ==
  ~ (  bbox1[3] < bbox2[1]
    \/ bbox1[1] > bbox2[3]
    \/ bbox1[4] < bbox2[2]
    \/ bbox1[2] > bbox2[4] )

(* ------------------------- tiling.js: quadtree ------------------------- *)

\* the variant that rounds the halves up
getParentTile_ceil(t) ==
  IF t.z = 0 THEN <<>>
  ELSE << Tile((t.x + 1) \div 2, (t.y + 1) \div 2, t.z - 1) >>

\* null is the empty sequence, a tile p the one-element sequence <<p>>
getParentTile(t) ==
  IF t.z = 0 THEN <<>>
  ELSE << Tile(t.x \div 2, t.y \div 2, t.z - 1) >>

\* the variant whose last child repeats the third
getChildTiles_repeat(t) ==
  LET baseX == t.x * 2
      baseY == t.y * 2
      childZ == t.z + 1
  IN  << Tile(baseX, baseY, childZ), Tile(baseX + 1, baseY, childZ),
         Tile(baseX, baseY + 1, childZ), Tile(baseX, baseY + 1, childZ) >>

getChildTiles(t) ==
  LET baseX == t.x * 2
      baseY == t.y * 2
      childZ == t.z + 1
  IN  << Tile(baseX, baseY, childZ), Tile(baseX + 1, baseY, childZ),
         Tile(baseX, baseY + 1, childZ), Tile(baseX + 1, baseY + 1, childZ) >>

(* ------------------ terrain-encoder.js: extractRegion ------------------ *)

\* An element of a Float32Array is a number or NaN; samples are integers.
Num(v) == [nan |-> FALSE, v |-> v]
NaN == [nan |-> TRUE, v |-> 0]

\* Math.fround on an integer of magnitude below 2^25: exact up to 2^24, above
\* it the nearest even integer, a tie going to the even significand
Fround(v) ==
  LET a == IF v < 0 THEN 0 - v ELSE v
      q == a \div 2
      r == IF a <= 2^24 \/ a % 2 = 0 THEN a
           ELSE IF q % 2 = 0 THEN 2 * q ELSE 2 * (q + 1)
  IN  IF v < 0 THEN 0 - r ELSE r

\* sourceData[i]: the element, or undefined outside the array
ReadElement(sourceData, i) ==
  IF 0 <= i /\ i < Len(sourceData.data)
    THEN [undef |-> FALSE, v |-> sourceData.data[i + 1]]
    ELSE [undef |-> TRUE, v |-> 0]

\* the store result[targetIdx] = value into a Float32Array
ToFloat32(e) == IF e.undef THEN NaN ELSE Num(Fround(e.v))

\* the variant that strides the source by the region width
RECURSIVE CopyLoop_regionStride(_, _, _, _, _, _, _, _, _)
CopyLoop_regionStride(res, sourceData, sourceWidth, x, y, width, height, row, col) ==
  IF row >= height THEN res
  ELSE IF col >= width
    THEN CopyLoop_regionStride(res, sourceData, sourceWidth, x, y, width, height, row + 1, 0)
    ELSE LET sourceIdx == (y + row) * width + (x + col)
             targetIdx == row * width + col
         IN  CopyLoop_regionStride(
               [res EXCEPT ![targetIdx + 1] = ToFloat32(ReadElement(sourceData, sourceIdx))],
               sourceData, sourceWidth, x, y, width, height, row, col + 1)

\* for (row ...) for (col ...) result[targetIdx] = sourceData[sourceIdx]
RECURSIVE CopyLoop(_, _, _, _, _, _, _, _, _)
CopyLoop(res, sourceData, sourceWidth, x, y, width, height, row, col) ==
  IF row >= height THEN res
  ELSE IF col >= width
    THEN CopyLoop(res, sourceData, sourceWidth, x, y, width, height, row + 1, 0)
    ELSE LET sourceIdx == (y + row) * sourceWidth + (x + col)
             targetIdx == row * width + col
         IN  CopyLoop(
               [res EXCEPT ![targetIdx + 1] = ToFloat32(ReadElement(sourceData, sourceIdx))],
               sourceData, sourceWidth, x, y, width, height, row, col + 1)

\* new Float32Array(n): n zeros
NewFloat32Array(n) == [i \in 1..n |-> Num(0)]

extractRegion_regionStride(sourceData, sourceWidth, x, y, width, height) ==
  CopyLoop_regionStride(NewFloat32Array(width * height),
                        sourceData, sourceWidth, x, y, width, height, 0, 0)

extractRegion(sourceData, sourceWidth, x, y, width, height) ==
  CopyLoop(NewFloat32Array(width * height),
           sourceData, sourceWidth, x, y, width, height, 0, 0)

(* ------------- terrain-encoder.js: resampleElevationData --------------- *)

\* A typed array handed to the encoder functions is a sequence of elements
\* Num(v) or NaN.  An interpolated value is a fraction n/d in lowest terms
\* (d > 0), or NaN.
RECURSIVE Gcd(_, _)
Gcd(a, b) == IF b = 0 THEN a ELSE Gcd(b, a % b)

Abs(v) == IF v < 0 THEN 0 - v ELSE v

NaNFrac == [nan |-> TRUE, n |-> 0, d |-> 1]

Frac(n, d) ==
  LET g == Gcd(Abs(n), d)
  IN  [nan |-> FALSE, n |-> n \div g, d |-> d \div g]

\* an element read as a value of the arithmetic
AsFrac(e) == IF e.nan THEN NaNFrac ELSE Frac(e.v, 1)

\* sourceData[i] as an operand: outside the array it is undefined, which
\* the arithmetic turns into NaN
ReadSample(sourceData, i) ==
  IF 0 <= i /\ i < Len(sourceData) THEN sourceData[i + 1] ELSE NaN

\* the store of a value into a Float32Array: an integer is narrowed by
\* Fround; a proper fraction of the small samples used is kept as it is
StoreFloat32(f) ==
  IF f.nan THEN NaNFrac
  ELSE IF f.d = 1 THEN Frac(Fround(f.n), 1) ELSE f

MinOf(a, b) == IF a <= b THEN a ELSE b
MaxOf(a, b) == IF a >= b THEN a ELSE b

\* v0 = va * (1 - frac) + vb * frac with frac = k / m, times m; NaN as soon
\* as one operand is NaN, whatever its weight
Blend(va, vb, k, m) ==
  IF va.nan \/ vb.nan THEN NaN ELSE Num(va.v * (m - k) + vb.v * k)

\* the variant that does not clamp x1 and y1 at the high edge
SourceCell_noClamp(sourceWidth, sourceHeight, targetWidth, targetHeight, tx, ty) ==
  LET x0 == (tx * sourceWidth) \div targetWidth
      y0 == (ty * sourceHeight) \div targetHeight
  IN  [x0 |-> x0, y0 |-> y0, x1 |-> x0 + 1, y1 |-> y0 + 1,
       xFrac |-> (tx * sourceWidth) % targetWidth,
       yFrac |-> (ty * sourceHeight) % targetHeight]

\* lines 84-93: the source cell of the target pixel (tx, ty): x0, y0, x1, y1
\* and the weights xFrac, yFrac as numerators over targetWidth, targetHeight
SourceCell(sourceWidth, sourceHeight, targetWidth, targetHeight, tx, ty) ==
  LET x0 == (tx * sourceWidth) \div targetWidth
      y0 == (ty * sourceHeight) \div targetHeight
  IN  [x0 |-> x0, y0 |-> y0,
       x1 |-> MinOf(x0 + 1, sourceWidth - 1),
       y1 |-> MinOf(y0 + 1, sourceHeight - 1),
       xFrac |-> (tx * sourceWidth) % targetWidth,
       yFrac |-> (ty * sourceHeight) % targetHeight]

\* the body of the two loops for the target pixel (tx, ty).  With
\* xRatio = sourceWidth / targetWidth, tx * xRatio has the integer part
\* (tx * sourceWidth) \div targetWidth and the fractional part
\* ((tx * sourceWidth) % targetWidth) / targetWidth; the weights are kept as
\* their numerators and the common denominator is divided out at the end.
Interpolate(sourceData, sourceWidth, sourceHeight, targetWidth, targetHeight, tx, ty) ==
  LET c == SourceCell(sourceWidth, sourceHeight, targetWidth, targetHeight, tx, ty)
      v00 == ReadSample(sourceData, c.y0 * sourceWidth + c.x0)
      v10 == ReadSample(sourceData, c.y0 * sourceWidth + c.x1)
      v01 == ReadSample(sourceData, c.y1 * sourceWidth + c.x0)
      v11 == ReadSample(sourceData, c.y1 * sourceWidth + c.x1)
      v0 == Blend(v00, v10, c.xFrac, targetWidth)
      v1 == Blend(v01, v11, c.xFrac, targetWidth)
      value == Blend(v0, v1, c.yFrac, targetHeight)
  IN  IF value.nan THEN NaNFrac
      ELSE Frac(value.v, targetWidth * targetHeight)

\* for (ty ...) for (tx ...) result[ty * targetWidth + tx] = value: every
\* index of the result is written once, by the pixel it is the index of
resampleElevationData(sourceData, sourceWidth, sourceHeight, targetWidth, targetHeight) ==
  [i \in 1..(targetWidth * targetHeight) |->
     StoreFloat32(Interpolate(sourceData, sourceWidth, sourceHeight,
                              targetWidth, targetHeight,
                              (i - 1) % targetWidth, (i - 1) \div targetWidth))]

(* --------------- terrain-encoder.js: encodeHeightmapPNG ---------------- *)

\* The elevationData of the encode functions is a sequence of values
\* Frac(n, d) or NaNFrac.

\* Math.round(x * scale) for x = num / den, 0 <= x < 1: the floor of the
\* product plus one half
RoundScaled(num, den, scale) == (2 * num * scale + den) \div (2 * den)

\* Infinity and -Infinity, the fractions with denominator 0
PosInfinity == [nan |-> FALSE, n |-> 1, d |-> 0]
NegInfinity == [nan |-> FALSE, n |-> -1, d |-> 0]

\* a < b for two values that are not NaN
Less(a, b) == a.n * b.d < b.n * a.d

\* the variant that rounds down (Math.floor)
Quantize_floor(e, lo, hi, scale) ==
  IF lo.nan \/ hi.nan \/ ~ Less(lo, hi) THEN Num(0)
  ELSE IF e.nan THEN NaN
  ELSE LET num == (e.n * lo.d - lo.n * e.d) * hi.d
           den == e.d * (hi.n * lo.d - lo.n * hi.d)
       IN  Num((num \div den) * scale + (((num % den) * scale) \div den))

\* normalized = range > 0 ? (e - lo) / range : 0 for range = hi - lo, then
\* Math.round(normalized * scale).  The quotient (e - lo) / range is
\* num / den; its whole part is multiplied apart from the rest, which keeps
\* the arithmetic within 32 bits.
Quantize(e, lo, hi, scale) ==
  IF lo.nan \/ hi.nan \/ ~ Less(lo, hi) THEN Num(0)
  ELSE IF e.nan THEN NaN
  ELSE LET num == (e.n * lo.d - lo.n * e.d) * hi.d
           den == e.d * (hi.n * lo.d - lo.n * hi.d)
       IN  Num((num \div den) * scale + RoundScaled(num % den, den, scale))

\* Math.max(0, Math.min(65535, q)): NaN goes through both
Clamp16(q) == IF q.nan THEN NaN ELSE Num(MaxOf(0, MinOf(65535, q.v)))

\* the store uint16Data[i] = q: NaN is stored as 0, an integer modulo 2^16
ToUint16(q) == IF q.nan THEN 0 ELSE q.v % 65536

\* buffer.writeUInt16BE(value, i * 2): the two bytes of one value
UInt16BE(value) == <<value \div 256, value % 256>>

\* buffer.readUInt16BE(i * 2), i counted from 0
readUInt16BE(buffer, i) == buffer[2 * i + 1] * 256 + buffer[2 * i + 2]

\* the Uint16Array of width * height values, filled for the indices of
\* elevationData (a store past its end is dropped), and the big-endian
\* buffer handed to sharp as a raw one-channel image
encodeHeightmapPNG(elevationData, width, height, minElevation, maxElevation) ==
  LET uint16Data ==
        [i \in 1..(width * height) |->
           IF i <= Len(elevationData)
             THEN ToUint16(Clamp16(Quantize(elevationData[i],
                                            Frac(minElevation, 1),
                                            Frac(maxElevation, 1), 65535)))
             ELSE 0]
  IN  [raw |-> [width |-> width, height |-> height, channels |-> 1],
       buffer |-> [k \in 1..(2 * width * height) |->
                     UInt16BE(uint16Data[(k + 1) \div 2])[2 - (k % 2)]]]

(* --------------- terrain-encoder.js: encodeRawHeightmap ---------------- *)

\* position of the leading bit of a, 0 < a < 2^30
Log2(a) == CHOOSE e \in 0..29 : 2^e <= a /\ a < 2^(e + 1)

\* the IEEE 754 binary32 fields of a float32 value: NaN is the quiet NaN
\* 0x7FC00000; a number n/d (d a power of two) with leading bit e has the
\* biased exponent e - log2(d) + 127 and the 23 bits below the leading bit
Float32Fields(f) ==
  IF f.nan THEN [sign |-> 0, exponent |-> 255, fraction |-> 2^22]
  ELSE IF f.n = 0 THEN [sign |-> 0, exponent |-> 0, fraction |-> 0]
  ELSE LET a == Abs(f.n)
           e == Log2(a)
       IN  [sign |-> IF f.n < 0 THEN 1 ELSE 0,
            exponent |-> e - Log2(f.d) + 127,
            fraction |-> IF e <= 23 THEN a * 2^(23 - e) - 2^23
                                    ELSE (a \div 2^(e - 23)) - 2^23]

\* the four bytes of the fields, least significant first
BytesLE(w) ==
  << w.fraction % 256,
     (w.fraction \div 256) % 256,
     (w.exponent % 2) * 128 + (w.fraction \div 65536),
     w.sign * 128 + (w.exponent \div 2) >>

\* buffer.writeFloatLE(value, i * 4): the value is narrowed to float32
writeFloatLE(value) == BytesLE(Float32Fields(StoreFloat32(value)))

\* buffer.readFloatLE(i * 4), i counted from 0, for the NaN, zero and normal
\* numbers writeFloatLE produces here
readFloatLE(buffer, i) ==
  LET b0 == buffer[4 * i + 1]
      b1 == buffer[4 * i + 2]
      b2 == buffer[4 * i + 3]
      b3 == buffer[4 * i + 4]
      sign == b3 \div 128
      exponent == (b3 % 128) * 2 + (b2 \div 128)
      fraction == (b2 % 128) * 65536 + b1 * 256 + b0
      m == 2^23 + fraction
      sh == exponent - 127 - 23
      mag == IF sh >= 0 THEN Frac(m * 2^sh, 1) ELSE Frac(m, 2^(0 - sh))
  IN  IF exponent = 255 THEN NaNFrac
      ELSE IF exponent = 0 THEN Frac(0, 1)
      ELSE IF sign = 1 THEN [mag EXCEPT !.n = 0 - mag.n] ELSE mag

\* the variant that writes the bytes most significant first
encodeRawHeightmap_bigEndian(elevationData) ==
  [k \in 1..(4 * Len(elevationData)) |->
     writeFloatLE(elevationData[(k + 3) \div 4])[4 - ((k - 1) % 4)]]

\* Buffer.alloc(elevationData.length * 4), then writeFloatLE of every element
encodeRawHeightmap(elevationData) ==
  [k \in 1..(4 * Len(elevationData)) |->
     writeFloatLE(elevationData[(k + 3) \div 4])[((k - 1) % 4) + 1]]

(* --------------- terrain-encoder.js: encodeQuantizedMesh --------------- *)

\* The buffer is kept as its length and the fields written into it, each
\* [offset, type, value]; the bytes of a double are not spelled out.
headerSize == 88

SizeOf(type) ==
  CASE type = "DoubleLE" -> 8
    [] type = "FloatLE" -> 4
    [] type = "Int16LE" -> 2

Field(type, value) == [type |-> type, value |-> value]

\* Math.min and Math.max: NaN as soon as one argument is NaN
MathMin(a, b) == IF a.nan \/ b.nan THEN NaNFrac ELSE IF Less(b, a) THEN b ELSE a
MathMax(a, b) == IF a.nan \/ b.nan THEN NaNFrac ELSE IF Less(a, b) THEN b ELSE a

\* the loop over elevationData that folds Math.min (Math.max) from i on
RECURSIVE MinHeightFrom(_, _, _)
MinHeightFrom(elevationData, i, acc) ==
  IF i > Len(elevationData) THEN acc
  ELSE MinHeightFrom(elevationData, i + 1, MathMin(acc, elevationData[i]))

RECURSIVE MaxHeightFrom(_, _, _)
MaxHeightFrom(elevationData, i, acc) ==
  IF i > Len(elevationData) THEN acc
  ELSE MaxHeightFrom(elevationData, i + 1, MathMax(acc, elevationData[i]))

\* elevationData[i] as an operand, i counted from 0
ReadElevation(elevationData, i) ==
  IF 0 <= i /\ i < Len(elevationData) THEN elevationData[i + 1] ELSE NaNFrac

\* buffer.writeInt16LE(quantized, offset): NaN is written as 0
Int16Of(q) == IF q.nan THEN 0 ELSE q.v

\* "write at offset; offset += size" for the fields from index k on
RECURSIVE WriteFields(_, _, _)
WriteFields(fields, k, offset) ==
  IF k > Len(fields) THEN <<>>
  ELSE << [offset |-> offset, type |-> fields[k].type, value |-> fields[k].value] >>
       \o WriteFields(fields, k + 1, offset + SizeOf(fields[k].type))

\* the variant that quantizes to the 16 bits of the PNG path
encodeQuantizedMesh_scale16(elevationData, width, height, tileBounds) ==
  LET vertexCount == width * height
      centerX == Frac(tileBounds.minX + tileBounds.maxX, 2)
      centerY == Frac(tileBounds.minY + tileBounds.maxY, 2)
      minHeight == MinHeightFrom(elevationData, 1, PosInfinity)
      maxHeight == MaxHeightFrom(elevationData, 1, NegInfinity)
      header ==
        << Field("DoubleLE", centerX), Field("DoubleLE", centerY),
           Field("DoubleLE", Frac(0, 1)),
           Field("FloatLE", StoreFloat32(minHeight)),
           Field("FloatLE", StoreFloat32(maxHeight)),
           Field("DoubleLE", centerX), Field("DoubleLE", centerY),
           Field("DoubleLE", Frac(0, 1)), Field("DoubleLE", Frac(1000000, 1)),
           Field("DoubleLE", Frac(0, 1)), Field("DoubleLE", Frac(0, 1)),
           Field("DoubleLE", Frac(0, 1)) >>
      heights ==
        [i \in 1..vertexCount |->
           Field("Int16LE",
                 Int16Of(Quantize(ReadElevation(elevationData, i - 1),
                                  minHeight, maxHeight, 65535)))]
  IN  [length |-> headerSize + vertexCount * 2,
       fields |-> WriteFields(header \o heights, 1, 0)]

\* Buffer.alloc(headerSize + vertexCount * 2); the header fields in the
\* order they are written; one Int16LE per vertex.  Coordinates are in
\* micro-degrees.
encodeQuantizedMesh(elevationData, width, height, tileBounds) ==
  LET vertexCount == width * height
      centerX == Frac(tileBounds.minX + tileBounds.maxX, 2)
      centerY == Frac(tileBounds.minY + tileBounds.maxY, 2)
      minHeight == MinHeightFrom(elevationData, 1, PosInfinity)
      maxHeight == MaxHeightFrom(elevationData, 1, NegInfinity)
      header ==
        << Field("DoubleLE", centerX), Field("DoubleLE", centerY),
           Field("DoubleLE", Frac(0, 1)),
           Field("FloatLE", StoreFloat32(minHeight)),
           Field("FloatLE", StoreFloat32(maxHeight)),
           Field("DoubleLE", centerX), Field("DoubleLE", centerY),
           Field("DoubleLE", Frac(0, 1)), Field("DoubleLE", Frac(1000000, 1)),
           Field("DoubleLE", Frac(0, 1)), Field("DoubleLE", Frac(0, 1)),
           Field("DoubleLE", Frac(0, 1)) >>
      heights ==
        [i \in 1..vertexCount |->
           Field("Int16LE",
                 Int16Of(Quantize(ReadElevation(elevationData, i - 1),
                                  minHeight, maxHeight, 32767)))]
  IN  [length |-> headerSize + vertexCount * 2,
       fields |-> WriteFields(header \o heights, 1, 0)]

(* ------------------------------ pipeline.js ---------------------------- *)

\* the rectangle of a tile as the [minX, minY, maxX, maxY] array the
\* orchestrator hands to bboxIntersects
TileBbox(t) ==
  LET b == tileToBounds(t.x, t.y, t.z)
  IN  <<b.minX, b.minY, b.maxX, b.maxY>>

\* Math.floor(d * n / extent) for integers d, n and extent # 0, which is
\* Math.floor(d * xScale) with xScale = n / extent.  d is split into its
\* whole multiple of extent and the rest, which keeps the arithmetic within
\* 32 bits.
ScaleFloor(d, n, extent) ==
  LET num == IF extent > 0 THEN d ELSE 0 - d
      den == IF extent > 0 THEN extent ELSE 0 - extent
  IN  (num \div den) * n + (((num % den) * n) \div den)

\* Math.ceil(d * n / extent)
ScaleCeil(d, n, extent) == 0 - ScaleFloor(0 - d, n, extent)

\* the variant that does not clamp x1 and y1 to the last column and row
tileWindow_noClamp(metadata, tileBounds) ==
  LET demBbox == metadata.bbox
      demWidth == metadata.width
      demHeight == metadata.height
      xExtent == demBbox[3] - demBbox[1]
      yExtent == demBbox[4] - demBbox[2]
      x0 == MaxOf(0, ScaleFloor(tileBounds.minX - demBbox[1], demWidth, xExtent))
      y0 == MaxOf(0, ScaleFloor(demBbox[4] - tileBounds.maxY, demHeight, yExtent))
      x1 == ScaleCeil(tileBounds.maxX - demBbox[1], demWidth, xExtent)
      y1 == ScaleCeil(demBbox[4] - tileBounds.minY, demHeight, yExtent)
  IN  [x0 |-> x0, y0 |-> y0, x1 |-> x1, y1 |-> y1,
       extractWidth |-> x1 - x0 + 1, extractHeight |-> y1 - y0 + 1]

\* the pixel window of the DEM a tile covers (lines 124-138)
tileWindow(metadata, tileBounds) ==
  LET demBbox == metadata.bbox
      demWidth == metadata.width
      demHeight == metadata.height
      xExtent == demBbox[3] - demBbox[1]
      yExtent == demBbox[4] - demBbox[2]
      x0 == MaxOf(0, ScaleFloor(tileBounds.minX - demBbox[1], demWidth, xExtent))
      y0 == MaxOf(0, ScaleFloor(demBbox[4] - tileBounds.maxY, demHeight, yExtent))
      x1 == MinOf(demWidth - 1,
                  ScaleCeil(tileBounds.maxX - demBbox[1], demWidth, xExtent))
      y1 == MinOf(demHeight - 1,
                  ScaleCeil(demBbox[4] - tileBounds.minY, demHeight, yExtent))
  IN  [x0 |-> x0, y0 |-> y0, x1 |-> x1, y1 |-> y1,
       extractWidth |-> x1 - x0 + 1, extractHeight |-> y1 - y0 + 1]

\* the variant that resamples only when both dimensions differ from tileSize
extractTileData_bothDiffer(elevationData, metadata, tileBounds, tileSize) ==
  LET w == tileWindow(metadata, tileBounds)
      regionData == extractRegion(elevationData, metadata.width, w.x0, w.y0,
                                  w.extractWidth, w.extractHeight)
  IN  IF w.extractWidth * w.extractHeight < 0
        THEN [ok |-> FALSE, data |-> <<>>]
      ELSE IF w.extractWidth # tileSize /\ w.extractHeight # tileSize
        THEN [ok |-> TRUE,
              data |-> resampleElevationData(regionData, w.extractWidth,
                                             w.extractHeight, tileSize, tileSize)]
      ELSE [ok |-> TRUE,
            data |-> [i \in 1..Len(regionData) |-> AsFrac(regionData[i])]]

\* extractTileData: [ok, data].  new Float32Array(n) in extractRegion throws
\* a RangeError for a negative n; the region is resampled unless it already
\* is tileSize x tileSize.
extractTileData(elevationData, metadata, tileBounds, tileSize) ==
  LET w == tileWindow(metadata, tileBounds)
      regionData == extractRegion(elevationData, metadata.width, w.x0, w.y0,
                                  w.extractWidth, w.extractHeight)
  IN  IF w.extractWidth * w.extractHeight < 0
        THEN [ok |-> FALSE, data |-> <<>>]
      ELSE IF w.extractWidth # tileSize \/ w.extractHeight # tileSize
        THEN [ok |-> TRUE,
              data |-> resampleElevationData(regionData, w.extractWidth,
                                             w.extractHeight, tileSize, tileSize)]
      ELSE [ok |-> TRUE,
            data |-> [i \in 1..Len(regionData) |-> AsFrac(regionData[i])]]

\* path.join of two segments
PathJoin(a, b) == a \o "/" \o b

\* fs.writeFile(path, data) on the files of the disk
WriteFile(files, path, data) ==
  [q \in (DOMAIN files) \cup {path} |-> IF q = path THEN data ELSE files[q]]

\* the variant that builds the path as {outputDir}/{z}/{y}/{x}{extension}
writeTile_swapXY(d, outputDir, z, x, y, data, extension) ==
  LET zPath == PathJoin(outputDir, ToString(z))
      tilePath == PathJoin(zPath, ToString(y))
      filePath == PathJoin(tilePath, ToString(x) \o extension)
  IN  [dirs |-> d.dirs \cup {outputDir, zPath, tilePath},
       files |-> WriteFile(d.files, filePath, data)]

\* terrain-encoder.js writeTile on the disk d: ensureDir creates tilePath
\* with its missing ancestors, writeFile creates or replaces the file
writeTile(d, outputDir, z, x, y, data, extension) ==
  LET zPath == PathJoin(outputDir, ToString(z))
      tilePath == PathJoin(zPath, ToString(x))
      filePath == PathJoin(tilePath, ToString(y) \o extension)
  IN  [dirs |-> d.dirs \cup {outputDir, zPath, tilePath},
       files |-> WriteFile(d.files, filePath, data)]

\* Math.min(...level.map(t => t.x)) as JSON.stringify writes it: Infinity
\* and -Infinity (an empty level) become null
JsonMin(values) ==
  IF values = {} THEN "null" ELSE CHOOSE v \in values : \A u \in values : v <= u
JsonMax(values) ==
  IF values = {} THEN "null" ELSE CHOOSE v \in values : \A u \in values : v >= u

\* the layerJson object of writeLayerJson (the fields that depend on the
\* run); Object.keys(levels) are the zooms minZoom..maxZoom in increasing
\* order
layerJsonOf(metadata, s) ==
  [bounds |-> metadata.bbox,
   minzoom |-> s.minZoom,
   maxzoom |-> s.maxZoom,
   tiles |-> <<"{z}/{x}/{y}.png">>,
   available |->
     [k \in 1..(s.maxZoom - s.minZoom + 1) |->
        LET level == s.levels[s.minZoom + k - 1]
            xs == { level[i].x : i \in 1..Len(level) }
            ys == { level[i].y : i \in 1..Len(level) }
        IN  << [startX |-> JsonMin(xs), startY |-> JsonMin(ys),
                endX |-> JsonMax(xs), endY |-> JsonMax(ys)] >>]]

(* ------------------------- index.js: run(argv) ------------------------- *)
\* JavaScript values of the command line interface.  A string is the
\* sequence of its characters.
Undefined == [type |-> "undefined"]
Str(chars) == [type |-> "string", chars |-> chars]
NumberValue(f) == [type |-> "number", value |-> f]
Bool(b) == [type |-> "boolean", b |-> b]

\* ToBoolean
Truthy(v) ==
  CASE v.type = "undefined" -> FALSE
    [] v.type = "string" -> v.chars # <<>>
    [] v.type = "number" -> ~ v.value.nan /\ v.value.n # 0
    [] v.type = "boolean" -> v.b

DigitChars == <<"0", "1", "2", "3", "4", "5", "6", "7", "8", "9">>

IsDigit(c) == \E k \in 1..10 : DigitChars[k] = c

DigitValue(c) == (CHOOSE k \in 1..10 : DigitChars[k] = c) - 1

\* the number of leading characters of chars, from position from, that are digits
RECURSIVE DigitRun(_, _)
DigitRun(chars, from) ==
  IF from <= Len(chars) /\ IsDigit(chars[from])
    THEN 1 + DigitRun(chars, from + 1)
    ELSE 0

\* the decimal value of the digits chars[from .. from + count - 1]
RECURSIVE DigitsValue(_, _, _)
DigitsValue(chars, from, count) ==
  IF count = 0 THEN 0
  ELSE 10 * DigitsValue(chars, from, count - 1) + DigitValue(chars[from + count - 1])

\* the number of leading / trailing blanks
RECURSIVE LeadingBlanks(_, _)
LeadingBlanks(chars, from) ==
  IF from <= Len(chars) /\ chars[from] = " "
    THEN 1 + LeadingBlanks(chars, from + 1)
    ELSE 0

RECURSIVE TrailingBlanks(_, _)
TrailingBlanks(chars, upto) ==
  IF upto >= 1 /\ chars[upto] = " "
    THEN 1 + TrailingBlanks(chars, upto - 1)
    ELSE 0

\* parseInt(v, 10): leading blanks, an optional sign, the longest run of
\* digits; NaN when there is no digit
parseInt(chars) ==
  LET start == 1 + LeadingBlanks(chars, 1)
      signed == start <= Len(chars) /\ chars[start] \in {"-", "+"}
      first == IF signed THEN start + 1 ELSE start
      count == DigitRun(chars, first)
      magnitude == DigitsValue(chars, first, count)
  IN  IF count = 0 THEN NumberValue(NaNFrac)
      ELSE IF signed /\ chars[start] = "-" THEN NumberValue(Frac(0 - magnitude, 1))
      ELSE NumberValue(Frac(magnitude, 1))

\* Number(v) for a string of blanks, signs, digits, points and letters: the
\* whole trimmed string has to be a decimal literal; the empty string is 0
StringToNumber(chars) ==
  LET start == 1 + LeadingBlanks(chars, 1)
      stop == Len(chars) - TrailingBlanks(chars, Len(chars))
      signed == start <= stop /\ chars[start] \in {"-", "+"}
      first == IF signed THEN start + 1 ELSE start
      whole == DigitRun(chars, first)
      pointAt == first + whole
      pointed == pointAt <= stop /\ chars[pointAt] = "."
      decimals == IF pointed THEN DigitRun(chars, pointAt + 1) ELSE 0
      last == IF pointed THEN pointAt + decimals ELSE pointAt - 1
      numerator == DigitsValue(chars, first, whole) * 10^decimals
                   + DigitsValue(chars, pointAt + 1, decimals)
  IN  IF start > stop THEN Frac(0, 1)
      ELSE IF whole + decimals = 0 \/ last # stop THEN NaNFrac
      ELSE IF signed /\ chars[start] = "-" THEN Frac(0 - numerator, 10^decimals)
      ELSE Frac(numerator, 10^decimals)

\* the variant of Number that leaves a string as it is
Number_asGiven(v) == v

\* Number(v)
Number(v) ==
  CASE v.type = "number" -> v
    [] v.type = "string" -> NumberValue(StringToNumber(v.chars))
    [] v.type = "undefined" -> NumberValue(NaNFrac)
    [] v.type = "boolean" -> NumberValue(Frac(IF v.b THEN 1 ELSE 0, 1))

\* an option of the command line: <<>> when it is not given, <<v>> when it
\* is given with the value v
Given(option) == option # <<>>

\* os.cpus().length
Cpus == 8

\* the parser of --workers (lines 20-26): the parsed value, or an Error
WorkersValid(chars) ==
  LET parsed == parseInt(chars)
  IN  ~ parsed.value.nan /\ parsed.value.n > 0

\* lines 9-31: commander's parse and program.opts(); ok is FALSE when
\* commander ends the process (no --input) or the --workers parser throws
ParseArgs(a) ==
  [ok |-> Given(a.input) /\ (Given(a.workers) => WorkersValid(a.workers[1])),
   opts |->
     [input |-> IF Given(a.input) THEN Str(a.input[1]) ELSE Undefined,
      output |-> IF Given(a.output) THEN Str(a.output[1]) ELSE Undefined,
      metadata |-> IF a.metadata THEN Bool(TRUE) ELSE Undefined,
      tileSize |-> IF Given(a.tileSize) THEN Str(a.tileSize[1])
                   ELSE Str(<<"2", "5", "6">>),
      maxLevel |-> IF Given(a.maxLevel) THEN parseInt(a.maxLevel[1])
                   ELSE NumberValue(Frac(10, 1)),
      workers |-> IF Given(a.workers) THEN parseInt(a.workers[1])
                  ELSE NumberValue(Frac(Cpus, 1))]]

\* a call made by run
Call(fn, args) == [fn |-> fn, args |-> args]

\* lines 50-56: the options object handed to generateTerrainTiles
GenerateOptions(o) ==
  [inputPath |-> o.input,
   outputDir |-> o.output,
   tileSize |-> Number(o.tileSize),
   maxLevel |-> Number(o.maxLevel),
   workers |-> o.workers]

(* --------------------------- tiling calls ------------------------------ *)

Bboxes ==
  { <<a * Deg, b * Deg, c * Deg, d * Deg>> :
      a \in Lons, b \in Lats, c \in Lons, d \in Lats }

\* values of the variables a specification does not use
IdleScheme ==
  /\ bbox = <<0, 0, 0, 0>>
  /\ minZoom = 0 /\ maxZoom = 0 /\ zoom = 0
  /\ tiles = <<>>
  /\ scheme = EmptyScheme(<<0, 0, 0, 0>>, 0, 0)

IdlePoint ==
  /\ point = [lon |-> 0, lat |-> 0, zoom |-> 0]
  /\ bounds = [minX |-> 0, minY |-> 0, maxX |-> 0, maxY |-> 0]

IdleQuad ==
  /\ parent = <<>> /\ children = <<>> /\ siblings = <<>> /\ childParents = <<>>

IdleBox ==
  /\ boxes = << <<0, 0, 0, 0>>, <<0, 0, 0, 0>> >>
  /\ hits = [ab |-> FALSE, ba |-> FALSE]

IdleRegion ==
  /\ source = [kind |-> "Float32Array", data |-> <<>>]
  /\ region = [sourceWidth |-> 0, x |-> 0, y |-> 0, width |-> 0, height |-> 0]
  /\ result = <<>>

IdleResample ==
  /\ rsSource = <<>>
  /\ rsDims = [sourceWidth |-> 0, sourceHeight |-> 0,
               targetWidth |-> 0, targetHeight |-> 0]
  /\ rsResult = <<>>

NoBounds == [minX |-> 0, minY |-> 0, maxX |-> 0, maxY |-> 0]

IdleEncode ==
  /\ encArgs = [elevationData |-> <<>>, width |-> 0, height |-> 0,
                minElevation |-> 0, maxElevation |-> 0, bounds |-> NoBounds]
  /\ encResult = <<>>

IdleEncoder == IdleResample /\ IdleEncode

NoDisk == [dirs |-> {}, files |-> <<>>]

IdleRun ==
  /\ options = [outputDir |-> "", tileSize |-> 0, maxLevel |-> 0, minLevel |-> 0]
  /\ dem = [data |-> [kind |-> "Float32Array", data |-> <<>>],
            metadata |-> [bbox |-> <<0, 0, 0, 0>>, below |-> {}, width |-> 0,
                          height |-> 0, minElevation |-> 0, maxElevation |-> 0]]
  /\ tilingScheme = EmptyScheme(<<0, 0, 0, 0>>, 0, 0)
  /\ runZoom = 0 /\ tileIdx = 0 /\ tilesProcessed = 0
  /\ tileElevationData = <<>> /\ pngBuffer = <<>>
  /\ disk = NoDisk
  /\ trace = <<>>

IdleCli == argv = <<>> /\ opts = <<>> /\ calls = <<>> /\ shown = <<>>

IdleTiling == IdleScheme /\ IdlePoint /\ IdleQuad /\ IdleBox /\ tile = Tile(0, 0, 0)

InitScheme ==
  /\ pc = "start"
  /\ bbox \in { b \in Bboxes : b[1] < b[3] /\ b[2] < b[4] }
  /\ minZoom \in 0..MaxZoom
  /\ maxZoom \in 0..MaxZoom
  /\ zoom = 0
  /\ tiles = <<>>
  /\ scheme = EmptyScheme(bbox, minZoom, maxZoom)
  /\ tile = Tile(0, 0, 0)
  /\ IdlePoint /\ IdleQuad /\ IdleBox /\ IdleRegion
  /\ IdleEncoder /\ IdleRun /\ IdleCli

GetTilesInBounds ==
  /\ pc = "start"
  /\ \E z \in 0..MaxZoom :
       /\ zoom' = z
       /\ tiles' = getTilesInBounds(bbox, z)
  /\ pc' = "tiles"
  /\ UNCHANGED <<bbox, minZoom, maxZoom, scheme, restOfScheme>>

GenerateTilingScheme ==
  /\ pc = "start"
  /\ scheme' = generateTilingScheme(bbox, minZoom, maxZoom)
  /\ pc' = "scheme"
  /\ UNCHANGED <<bbox, minZoom, maxZoom, zoom, tiles, restOfScheme>>

NextScheme == GetTilesInBounds \/ GenerateTilingScheme

SpecScheme == InitScheme /\ [][NextScheme]_vars

(* ------------------ lonLatToTile / tileToBounds calls ------------------ *)

InitPoint ==
  /\ pc = "start"
  /\ point \in [lon : { l * Deg : l \in PointLons },
                lat : { l * Deg : l \in PointLats },
                zoom : 0..MaxZoom]
  /\ tile = Tile(0, 0, 0)
  /\ bounds = [minX |-> 0, minY |-> 0, maxX |-> 0, maxY |-> 0]
  /\ IdleScheme /\ IdleQuad /\ IdleBox /\ IdleRegion
  /\ IdleEncoder /\ IdleRun /\ IdleCli

LonLatToTile ==
  /\ pc = "start"
  /\ tile' = lonLatToTile(point.lon, point.lat, point.zoom)
  /\ pc' = "tile"
  /\ UNCHANGED <<pointVars, restOfPoint>>

TileToBounds ==
  /\ pc = "tile"
  /\ bounds' = tileToBounds(tile.x, tile.y, tile.z)
  /\ pc' = "bounds"
  /\ UNCHANGED <<point, tile, restOfPoint>>

NextPoint == LonLatToTile \/ TileToBounds

SpecPoint == InitPoint /\ [][NextPoint]_vars

(* ----------------- getParentTile / getChildTiles calls ----------------- *)

InitQuad ==
  /\ pc = "start"
  /\ tile \in { Tile(i, j, z) : i \in 0..(2^MaxZoom - 1), j \in 0..(2^MaxZoom - 1),
                                z \in 0..MaxZoom }
  /\ tile.x < 2^(tile.z) /\ tile.y < 2^(tile.z)
  /\ IdleScheme /\ IdlePoint /\ IdleQuad /\ IdleBox /\ IdleRegion
  /\ IdleEncoder /\ IdleRun /\ IdleCli

GetParentTile ==
  /\ pc = "start"
  /\ parent' = getParentTile(tile)
  /\ pc' = "parent"
  /\ UNCHANGED <<tile, children, siblings, childParents, restOfQuad>>

\* getChildTiles(getParentTile(tile)); a null argument throws a TypeError
GetChildTilesOfParent ==
  /\ pc = "parent"
  /\ parent # <<>>
  /\ siblings' = getChildTiles(parent[1])
  /\ pc' = "siblings"
  /\ UNCHANGED <<tile, parent, children, childParents, restOfQuad>>

GetChildTiles ==
  /\ pc = "start"
  /\ children' = getChildTiles(tile)
  /\ pc' = "children"
  /\ UNCHANGED <<tile, parent, siblings, childParents, restOfQuad>>

\* children.map(getParentTile)
GetParentTileOfChildren ==
  /\ pc = "children"
  /\ childParents' = [i \in 1..Len(children) |-> getParentTile(children[i])]
  /\ pc' = "childParents"
  /\ UNCHANGED <<tile, parent, children, siblings, restOfQuad>>

NextQuad ==
  \/ GetParentTile \/ GetChildTilesOfParent
  \/ GetChildTiles \/ GetParentTileOfChildren

SpecQuad == InitQuad /\ [][NextQuad]_vars

(* ------------------------ bboxIntersects calls ------------------------- *)

Rects == { <<a, b, c, d>> : a \in Coords, b \in Coords, c \in Coords, d \in Coords }

InitBox ==
  /\ pc = "start"
  /\ boxes \in Rects \X Rects
  /\ hits = [ab |-> FALSE, ba |-> FALSE]
  /\ tile = Tile(0, 0, 0)
  /\ IdleScheme /\ IdlePoint /\ IdleQuad /\ IdleRegion
  /\ IdleEncoder /\ IdleRun /\ IdleCli

BboxIntersectsAB ==
  /\ pc = "start"
  /\ hits' = [hits EXCEPT !.ab = bboxIntersects(boxes[1], boxes[2])]
  /\ pc' = "ab"
  /\ UNCHANGED <<boxes, restOfBox>>

BboxIntersectsBA ==
  /\ pc = "ab"
  /\ hits' = [hits EXCEPT !.ba = bboxIntersects(boxes[2], boxes[1])]
  /\ pc' = "both"
  /\ UNCHANGED <<boxes, restOfBox>>

NextBox == BboxIntersectsAB \/ BboxIntersectsBA

SpecBox == InitBox /\ [][NextBox]_vars

(* ------------------------- extractRegion calls ------------------------- *)

\* the rasters: a Float32Array holds float32 values only, a Float64Array
\* also integers above 2^24 that are no float32 values
Sources(n) ==
  { [kind |-> "Float32Array", data |-> [i \in 1..n |-> 10 * i]],
    [kind |-> "Float32Array", data |-> [i \in 1..n |-> 2^24 + 2 * i]],
    [kind |-> "Float64Array", data |-> [i \in 1..n |-> 10 * i]],
    [kind |-> "Float64Array", data |-> [i \in 1..n |-> 2^24 + i]] }

InitRegion ==
  /\ pc = "start"
  /\ region \in [sourceWidth : 1..MaxDim, x : 0..MaxDim, y : 0..MaxDim,
                 width : 0..MaxDim, height : 0..MaxDim]
  /\ \E sourceHeight \in 1..MaxDim :
       source \in Sources(region.sourceWidth * sourceHeight)
  /\ result = <<>>
  /\ tile = Tile(0, 0, 0)
  /\ IdleScheme /\ IdlePoint /\ IdleQuad /\ IdleBox
  /\ IdleEncoder /\ IdleRun /\ IdleCli

ExtractRegion ==
  /\ pc = "start"
  /\ result' = extractRegion(source, region.sourceWidth, region.x, region.y,
                             region.width, region.height)
  /\ pc' = "extracted"
  /\ UNCHANGED <<source, region, restOfRegion>>

NextRegion == ExtractRegion

SpecRegion == InitRegion /\ [][NextRegion]_vars

(* --------------------- resampleElevationData calls --------------------- *)

\* the rasters of n samples: plain elevations, elevations with one NaN
\* sample (a no-data cell of a float raster) at index k, and the integers
\* above 2^24 a Float64Array can hold
Samples(n) ==
  { [i \in 1..n |-> Num(10 * i * i)], [i \in 1..n |-> Num(2^24 + i)] }
  \cup { [i \in 1..n |-> IF i = k THEN NaN ELSE Num(10 * i * i)] : k \in 1..n }

InitResample ==
  /\ pc = "start"
  /\ rsDims \in [sourceWidth : 1..MaxDim, sourceHeight : 1..MaxDim,
                  targetWidth : 1..MaxTarget, targetHeight : 1..MaxTarget]
  /\ rsSource \in Samples(rsDims.sourceWidth * rsDims.sourceHeight)
  /\ rsResult = <<>>
  /\ IdleTiling /\ IdleRegion /\ IdleEncode /\ IdleRun /\ IdleCli

ResampleElevationData ==
  /\ pc = "start"
  /\ rsResult' = resampleElevationData(rsSource, rsDims.sourceWidth, rsDims.sourceHeight,
                                       rsDims.targetWidth, rsDims.targetHeight)
  /\ pc' = "resampled"
  /\ UNCHANGED <<rsSource, rsDims, tilingVars, regionVars, encodeVars, runVars, cliVars>>

NextResample == ResampleElevationData

SpecResample == InitResample /\ [][NextResample]_vars

(* -------------------------- encode calls ------------------------------- *)

\* elevations around sea level with their normalization ranges, and
\* elevations around 2^24 (a Float64Array holds the odd ones, a Float32Array
\* cannot) with theirs
LowElevations ==
  << Frac(0, 1), Frac(50, 1), Frac(100, 1), Frac(-20, 1), Frac(130, 1),
     NaNFrac, Frac(99, 1), Frac(101, 2) >>
HighElevations ==
  << Frac(2^24 + 1, 1), Frac(2^24 - 3, 1), Frac(2^24 + 2, 1), Frac(2^24 + 3, 1),
     Frac(2^24, 1) >>
LowRanges == { <<0, 0>>, <<0, 100>>, <<100, 100>>, <<-20, 130>> }
HighRanges == { <<2^24 - 3, 2^24 + 3>>, <<2^24, 2^24 + 2>> }

\* the n elevations of list that start at its offset k, cyclically
Cycle(list, k, n) == [i \in 1..n |-> list[((i - 1 + k) % Len(list)) + 1]]

\* lengths of elevationData for a width * height image: the matching one,
\* one more, one less
DataLengths(n) == {n, n + 1} \cup (IF n > 0 THEN {n - 1} ELSE {})

EncodeArgs(list, ranges) ==
  { [elevationData |-> Cycle(list, k, n), width |-> w, height |-> h,
     minElevation |-> r[1], maxElevation |-> r[2], bounds |-> b] :
      k \in 0..(Len(list) - 1), n \in 0..((MaxDim + 1) * MaxDim),
      w \in 0..MaxDim, h \in 0..MaxDim, r \in ranges,
      b \in { tileToBounds(0, 0, 0), tileToBounds(1, 0, 1) } }

InitEncode ==
  /\ pc = "start"
  /\ encArgs \in EncodeArgs(LowElevations, LowRanges)
                   \cup EncodeArgs(HighElevations, HighRanges)
  /\ Len(encArgs.elevationData) \in DataLengths(encArgs.width * encArgs.height)
  /\ encResult = <<>>
  /\ IdleTiling /\ IdleRegion /\ IdleResample /\ IdleRun /\ IdleCli

EncodeHeightmapPNG ==
  /\ pc = "start"
  /\ encResult' = encodeHeightmapPNG(encArgs.elevationData, encArgs.width,
                                     encArgs.height, encArgs.minElevation,
                                     encArgs.maxElevation)
  /\ pc' = "png"
  /\ UNCHANGED <<encArgs, tilingVars, regionVars, resampleVars, runVars, cliVars>>

EncodeRawHeightmap ==
  /\ pc = "start"
  /\ encResult' = encodeRawHeightmap(encArgs.elevationData)
  /\ pc' = "raw"
  /\ UNCHANGED <<encArgs, tilingVars, regionVars, resampleVars, runVars, cliVars>>

EncodeQuantizedMesh ==
  /\ pc = "start"
  /\ encResult' = encodeQuantizedMesh(encArgs.elevationData, encArgs.width,
                                      encArgs.height, encArgs.bounds)
  /\ pc' = "mesh"
  /\ UNCHANGED <<encArgs, tilingVars, regionVars, resampleVars, runVars, cliVars>>

NextEncode == EncodeHeightmapPNG \/ EncodeRawHeightmap \/ EncodeQuantizedMesh

SpecEncode == InitEncode /\ [][NextEncode]_vars

(* ------------------------- generateTerrainTiles ------------------------ *)

\* bounding boxes of the rasters of a run: the globe, boxes inside one tile,
\* boxes whose edges are tile edges; and malformed boxes (min above max)
RunBboxes ==
  { <<-180 * Deg, -85 * Deg, 180 * Deg, 85 * Deg>>,
    <<-10 * Deg, -10 * Deg, 10 * Deg, 10 * Deg>>,
    <<0, 0, 10 * Deg, 10 * Deg>>,
    <<-180 * Deg, 0, 0, 85 * Deg>>,
    <<10 * Deg, -10 * Deg, 180 * Deg, 10 * Deg>>,
    <<-90 * Deg, -85 * Deg, -10 * Deg, 0>> }
\* bboxes whose east edge, as computed by the decoder, falls just under 0
SeamBboxes == { <<-10 * Deg, -10 * Deg, 0, 10 * Deg>> }
\* bboxes that reach the south pole (a global DEM): at lat = -90
\* Math.tan(latRad) is -16331239353195370 and 1 / Math.cos(latRad) is
\* 16331239353195370, their sum is 0, Math.log(0) is -Infinity, and the y of
\* lonLatToTile is Math.floor(Infinity) = Infinity at every zoom
SouthPole == -90 * Deg
PolarBboxes ==
  { <<-180 * Deg, SouthPole, 180 * Deg, 85 * Deg>>,
    <<-10 * Deg, SouthPole, 10 * Deg, 10 * Deg>> }
InvertedBboxes ==
  { <<10 * Deg, -10 * Deg, -10 * Deg, 10 * Deg>>,
    <<-10 * Deg, 10 * Deg, 10 * Deg, -10 * Deg>> }

\* readDEMMetadata's scan of the samples 10, 20, ..., 10 * n (no no-data
\* value): Infinity and -Infinity, left by an empty scan, are replaced by 0
ScannedMin(n) == IF n = 0 THEN 0 ELSE 10
ScannedMax(n) == IF n = 0 THEN 0 ELSE 10 * n

\* what readDEMData returns for a raster of n samples.  The numbers of bbox
\* are micro-degrees; an entry listed in below is the double just under the
\* number written (-1e-17 for 0).  Every sum and difference the code forms
\* with such an entry rounds to the one formed with the number written
\* (-1e-17 + 180 is 180); only a comparison tells the two apart.
Raster(b, w, h, n) ==
  [data |-> [kind |-> "Float32Array", data |-> [i \in 1..n |-> 10 * i]],
   metadata |-> [bbox |-> b, below |-> {}, width |-> w, height |-> h,
                 minElevation |-> ScannedMin(n), maxElevation |-> ScannedMax(n)]]

\* the decoded rasters: well-formed ones, and the malformed ones a decoder
\* can hand over (inverted bbox, a zero dimension, a sample count that is
\* not width * height)
Rasters ==
  { Raster(b, d[1], d[2], d[1] * d[2]) :
      b \in RunBboxes, d \in { <<1, 1>>, <<2, 2>>, <<3, 2>> } }
  \cup { [r EXCEPT !.metadata.below = {3}] : r \in { Raster(b, 2, 2, 4) : b \in SeamBboxes } }
  \cup { Raster(b, 2, 2, 4) : b \in InvertedBboxes }
  \cup { Raster(b, 2, 2, 4) : b \in PolarBboxes }
  \cup { Raster(<<-10 * Deg, -10 * Deg, 10 * Deg, 10 * Deg>>, d[1], d[2], d[3]) :
           d \in { <<0, 2, 0>>, <<2, 0, 0>>, <<2, 2, 3>>, <<2, 2, 5>> } }

TileSizes == {1, 2}

NoTile == Tile(-1, -1, -1)

Step(step, t, args) == [step |-> step, tile |-> t, args |-> args]

CurrentTile == tilingScheme.levels[runZoom][tileIdx]

Init ==
  /\ pc = "init"
  /\ options \in [outputDir : {"out"}, tileSize : TileSizes,
                   maxLevel : 0..MaxLevel, minLevel : 0..MaxLevel]
  /\ options.minLevel <= options.maxLevel
  /\ dem = [data |-> [kind |-> "Float32Array", data |-> <<>>],
            metadata |-> [bbox |-> <<0, 0, 0, 0>>, below |-> {}, width |-> 0,
                          height |-> 0, minElevation |-> 0, maxElevation |-> 0]]
  /\ tilingScheme = EmptyScheme(<<0, 0, 0, 0>>, 0, 0)
  /\ runZoom = 0 /\ tileIdx = 0 /\ tilesProcessed = 0
  /\ tileElevationData = <<>> /\ pngBuffer = <<>>
  /\ disk \in { NoDisk, [dirs |-> {options.outputDir}, files |-> <<>>] }
  /\ trace = <<>>
  /\ IdleTiling /\ IdleRegion /\ IdleEncoder /\ IdleCli

\* line 37: await readDEMData(inputPath) resolves with a decoded raster
ReadDEMData ==
  /\ pc = "init"
  /\ \E r \in Rasters : dem' = r
  /\ pc' = "scheme"
  /\ UNCHANGED <<options, tilingScheme, runZoom, tileIdx, tilesProcessed,
                 tileElevationData, pngBuffer, disk, trace>>
  /\ UNCHANGED <<tilingVars, regionVars, encoderVars, cliVars>>

\* line 37: readDEMData rejects (no such file, not a GeoTIFF)
ReadDEMDataFails ==
  /\ pc = "init"
  /\ pc' = "failed"
  /\ UNCHANGED <<runVars, tilingVars, regionVars, encoderVars, cliVars>>

\* getTilesInBounds(b, 0) never returns: maxTile.y is Infinity, so the test
\* y <= maxTile.y of the inner loop holds for every y, and the column range
\* minTile.x..maxTile.x is not empty, so the inner loop is entered
EnumerationUnending(b) ==
  /\ b[2] = SouthPole
  /\ lonLatToTile(b[1], 0, 0).x <= lonLatToTile(b[3], 0, 0).x

\* line 46, inside generateTilingScheme at zoom 0, when the enumeration is
\* unending: the test y <= maxTile.y of the inner loop, which holds
TestRow ==
  /\ pc = "scheme"
  /\ EnumerationUnending(dem.metadata.bbox)
  /\ pc' = "push"
  /\ UNCHANGED <<runVars, tilingVars, regionVars, encoderVars, cliVars>>

\* the body of the inner loop and its y++: one more tiles.push of the first
\* column, then the test again.  Past MaxListed pushes the loop goes on but
\* the pushed tiles are no longer recorded
PushTile ==
  /\ pc = "push"
  /\ LET minTile == lonLatToTile(dem.metadata.bbox[1], dem.metadata.bbox[4], 0)
     IN  tiles' = IF Len(tiles) < MaxListed
                    THEN Append(tiles, Tile(minTile.x, minTile.y + Len(tiles), 0))
                    ELSE tiles
  /\ pc' = "scheme"
  /\ UNCHANGED <<bbox, minZoom, maxZoom, zoom, scheme>>
  /\ UNCHANGED <<pointVars, tile, quadVars, boxVars>>
  /\ UNCHANGED <<runVars, regionVars, encoderVars, cliVars>>

\* lines 46-59: the tiling scheme, the counter, the head of the outer loop
ComputeTilingScheme ==
  /\ pc = "scheme"
  /\ ~ EnumerationUnending(dem.metadata.bbox)
  /\ tilingScheme' = generateTilingScheme(dem.metadata.bbox, 0, options.maxLevel)
  /\ runZoom' = 0 /\ tileIdx' = 1 /\ tilesProcessed' = 0
  /\ pc' = "loop"
  /\ UNCHANGED <<options, dem, tileElevationData, pngBuffer, disk, trace>>
  /\ UNCHANGED <<tilingVars, regionVars, encoderVars, cliVars>>

\* the numbers of a rectangle on the scale of the comparisons: twice the
\* micro-degrees, so that the double just under a number lies between it and
\* the number before it
Twice(b) == [k \in 1..4 |-> 2 * b[k]]

\* metadata.bbox as bboxIntersects compares it
ComparedBbox(metadata) ==
  [k \in 1..4 |-> 2 * metadata.bbox[k] - (IF k \in metadata.below THEN 1 ELSE 0)]

\* lines 62-69: the next tile of the level, its bounds, the intersection
\* test; a tile that fails it is skipped
TestTile ==
  /\ pc = "loop"
  /\ runZoom <= options.maxLevel
  /\ tileIdx <= Len(tilingScheme.levels[runZoom])
  /\ IF ~ bboxIntersects(ComparedBbox(dem.metadata), Twice(TileBbox(CurrentTile)))
       THEN /\ trace' = Append(trace, Step("skip", CurrentTile, <<>>))
            /\ tileIdx' = tileIdx + 1
            /\ pc' = "loop"
       ELSE /\ pc' = "extract"
            /\ UNCHANGED <<tileIdx, trace>>
  /\ UNCHANGED <<options, dem, tilingScheme, runZoom, tilesProcessed,
                 tileElevationData, pngBuffer, disk>>
  /\ UNCHANGED <<tilingVars, regionVars, encoderVars, cliVars>>

\* the variant that clears the samples of the raster once a tile is extracted
ExtractTile_inPlace ==
  /\ pc = "extract"
  /\ LET r == extractTileData(dem.data, dem.metadata,
                              tileToBounds(CurrentTile.x, CurrentTile.y, CurrentTile.z),
                              options.tileSize)
     IN  IF r.ok
           THEN /\ tileElevationData' = r.data
                /\ dem' = [dem EXCEPT !.data.data = [i \in DOMAIN @ |-> 0]]
                /\ trace' = Append(trace, Step("extract", CurrentTile, <<>>))
                /\ pc' = "encode"
           ELSE /\ pc' = "failed"
                /\ UNCHANGED <<tileElevationData, trace, dem>>
  /\ UNCHANGED <<options, tilingScheme, runZoom, tileIdx, tilesProcessed,
                 pngBuffer, disk>>
  /\ UNCHANGED <<tilingVars, regionVars, encoderVars, cliVars>>

\* lines 72-77: extractTileData; a RangeError ends the run
ExtractTile ==
  /\ pc = "extract"
  /\ LET r == extractTileData(dem.data, dem.metadata,
                              tileToBounds(CurrentTile.x, CurrentTile.y, CurrentTile.z),
                              options.tileSize)
     IN  IF r.ok
           THEN /\ tileElevationData' = r.data
                /\ trace' = Append(trace, Step("extract", CurrentTile, <<>>))
                /\ pc' = "encode"
           ELSE /\ pc' = "failed"
                /\ UNCHANGED <<tileElevationData, trace>>
  /\ UNCHANGED <<options, dem, tilingScheme, runZoom, tileIdx, tilesProcessed,
                 pngBuffer, disk>>
  /\ UNCHANGED <<tilingVars, regionVars, encoderVars, cliVars>>

\* lines 80-86: await encodeHeightmapPNG(...) resolves
EncodeTile ==
  /\ pc = "encode"
  /\ pngBuffer' = encodeHeightmapPNG(tileElevationData, options.tileSize,
                                     options.tileSize, dem.metadata.minElevation,
                                     dem.metadata.maxElevation)
  /\ trace' = Append(trace, Step("encode", CurrentTile, <<>>))
  /\ pc' = "emit"
  /\ UNCHANGED <<options, dem, tilingScheme, runZoom, tileIdx, tilesProcessed,
                 tileElevationData, disk>>
  /\ UNCHANGED <<tilingVars, regionVars, encoderVars, cliVars>>

\* lines 80-86: the PNG encoder rejects
EncodeTileFails ==
  /\ pc = "encode"
  /\ pc' = "failed"
  /\ UNCHANGED <<runVars, tilingVars, regionVars, encoderVars, cliVars>>

\* lines 89-91: await writeTile(...) resolves; tilesProcessed++; next tile
EmitTile ==
  /\ pc = "emit"
  /\ disk' = writeTile(disk, options.outputDir, CurrentTile.z, CurrentTile.x,
                       CurrentTile.y, pngBuffer, ".png")
  /\ trace' = Append(trace,
                     Step("emit", CurrentTile,
                          <<options.outputDir, CurrentTile.z, CurrentTile.x,
                            CurrentTile.y, pngBuffer, ".png">>))
  /\ tilesProcessed' = tilesProcessed + 1
  /\ tileIdx' = tileIdx + 1
  /\ pc' = "loop"
  /\ UNCHANGED <<options, dem, tilingScheme, runZoom, tileElevationData, pngBuffer>>
  /\ UNCHANGED <<tilingVars, regionVars, encoderVars, cliVars>>

\* the variant that removes what the run has written when a write fails
EmitTileFails_rollback ==
  /\ pc = "emit"
  /\ disk' = [disk EXCEPT !.files = <<>>]
  /\ pc' = "failed"
  /\ UNCHANGED <<options, dem, tilingScheme, runZoom, tileIdx, tilesProcessed,
                 tileElevationData, pngBuffer, trace>>
  /\ UNCHANGED <<tilingVars, regionVars, encoderVars, cliVars>>

\* line 89: writeTile rejects, in ensureDir (nothing is created) or in
\* writeFile (the directories exist; the file is missing or cut short)
EmitTileFails ==
  /\ pc = "emit"
  /\ LET written == writeTile(disk, options.outputDir, CurrentTile.z,
                              CurrentTile.x, CurrentTile.y, <<>>, ".png")
     IN  disk' \in { disk, [written EXCEPT !.files = disk.files], written }
  /\ pc' = "failed"
  /\ UNCHANGED <<options, dem, tilingScheme, runZoom, tileIdx, tilesProcessed,
                 tileElevationData, pngBuffer, trace>>
  /\ UNCHANGED <<tilingVars, regionVars, encoderVars, cliVars>>

\* line 59: the level is exhausted, zoom++
NextLevel ==
  /\ pc = "loop"
  /\ runZoom < options.maxLevel
  /\ tileIdx > Len(tilingScheme.levels[runZoom])
  /\ runZoom' = runZoom + 1
  /\ tileIdx' = 1
  /\ UNCHANGED <<pc, options, dem, tilingScheme, tilesProcessed,
                 tileElevationData, pngBuffer, disk, trace>>
  /\ UNCHANGED <<tilingVars, regionVars, encoderVars, cliVars>>

\* the variant that leaves the loops after any level
EndOfLevels_anyLevel ==
  /\ pc = "loop"
  /\ tileIdx > Len(tilingScheme.levels[runZoom])
  /\ pc' = "finalize"
  /\ UNCHANGED <<runVars, tilingVars, regionVars, encoderVars, cliVars>>

\* lines 59, 102-103: the last level is exhausted
EndOfLevels ==
  /\ pc = "loop"
  /\ runZoom = options.maxLevel
  /\ tileIdx > Len(tilingScheme.levels[runZoom])
  /\ pc' = "finalize"
  /\ UNCHANGED <<runVars, tilingVars, regionVars, encoderVars, cliVars>>

\* line 108: await writeLayerJson(...) resolves; fs.writeJson creates no
\* directory, so outputDir has to exist
WriteLayerJson ==
  /\ pc = "finalize"
  /\ options.outputDir \in disk.dirs
  /\ disk' = [disk EXCEPT !.files =
                WriteFile(disk.files, PathJoin(options.outputDir, "layer.json"),
                          layerJsonOf(dem.metadata, tilingScheme))]
  /\ trace' = Append(trace, Step("finalize", NoTile, <<>>))
  /\ pc' = "done"
  /\ UNCHANGED <<options, dem, tilingScheme, runZoom, tileIdx, tilesProcessed,
                 tileElevationData, pngBuffer>>
  /\ UNCHANGED <<tilingVars, regionVars, encoderVars, cliVars>>

\* line 108: writeLayerJson rejects (no outputDir, or the write fails)
WriteLayerJsonFails ==
  /\ pc = "finalize"
  /\ pc' = "failed"
  /\ UNCHANGED <<runVars, tilingVars, regionVars, encoderVars, cliVars>>

Next ==
  \/ ReadDEMData \/ ReadDEMDataFails
  \/ ComputeTilingScheme
  \/ TestRow \/ PushTile
  \/ TestTile \/ ExtractTile
  \/ EncodeTile \/ EncodeTileFails
  \/ EmitTile \/ EmitTileFails
  \/ NextLevel \/ EndOfLevels
  \/ WriteLayerJson \/ WriteLayerJsonFails

Spec == Init /\ [][Next]_vars

\* where the run stands: every step of Next changes it
position == <<pc, runZoom, tileIdx>>

\* a run that has not ended takes a step.  Every step of Next is one, and
\* one is possible exactly where a step of Next is (wherever the run has not
\* ended)
Continue ==
  /\ pc \notin {"done", "failed"}
  /\ pc' \in {"scheme", "push", "loop", "extract", "encode", "emit",
              "finalize", "done", "failed"}
  /\ runZoom' \in {runZoom, runZoom + 1}
  /\ tileIdx' \in {1, tileIdx, tileIdx + 1}

\* the run under the scheduling of the event loop: the synchronous code
\* between two awaits runs on, and every awaited promise settles
FairSpec == Spec /\ WF_position(Continue)

(* ------------------- specification: the command line ------------------- *)

\* the command lines run is given: each option absent (<<>>) or present
\* with its text
InputTexts == { <<"d", ".", "t", "i", "f">> }
OutputTexts == { <<>>, <<"o", "u", "t">> }
TileSizeTexts == { <<"2">>, <<"1", ".", "5">>, <<"1", "2", "p", "x">> }
MaxLevelTexts == { <<"3">>, <<"x">>, <<" ", "2">> }
WorkersTexts == { <<"4">>, <<"0">> }

Optional(texts) == { <<>> } \cup { <<t>> : t \in texts }

Argvs ==
  [input : Optional(InputTexts), output : Optional(OutputTexts),
   metadata : BOOLEAN, tileSize : Optional(TileSizeTexts),
   maxLevel : Optional(MaxLevelTexts), workers : Optional(WorkersTexts)]

InitCli ==
  /\ pc = "run"
  /\ argv \in Argvs
  /\ opts = <<>> /\ calls = <<>> /\ shown = <<>>
  /\ IdleTiling /\ IdleRegion /\ IdleEncoder /\ IdleRun

\* lines 7-50: run(argv) up to its first await, or up to the error that
\* ends it
Run ==
  /\ pc = "run"
  /\ LET p == ParseArgs(argv)
     IN  IF ~ p.ok
           THEN /\ pc' = "failed"
                /\ UNCHANGED <<opts, calls>>
         ELSE IF Truthy(p.opts.metadata)
           THEN /\ opts' = p.opts
                /\ calls' = Append(calls, Call("readDEMMetadata", <<p.opts.input>>))
                /\ pc' = "metadata"
         ELSE IF ~ Truthy(p.opts.output)
           THEN /\ opts' = p.opts
                /\ pc' = "failed"
                /\ UNCHANGED calls
         ELSE /\ opts' = p.opts
              /\ calls' = Append(calls, Call("generateTerrainTiles",
                                             <<GenerateOptions(p.opts)>>))
              /\ pc' = "generate"
  /\ UNCHANGED <<argv, shown>>
  /\ UNCHANGED <<tilingVars, regionVars, encoderVars, runVars>>

\* lines 36-38: readDEMMetadata resolves; the metadata is formatted and shown
MetadataResolves ==
  /\ pc = "metadata"
  /\ calls' = Append(calls, Call("formatMetadata", <<>>))
  /\ shown' = Append(shown, "metadata")
  /\ pc' = "returned"
  /\ UNCHANGED <<argv, opts>>
  /\ UNCHANGED <<tilingVars, regionVars, encoderVars, runVars>>

\* lines 39-42: readDEMMetadata rejects; the error is shown and thrown again
MetadataRejects ==
  /\ pc = "metadata"
  /\ shown' = Append(shown, "Error reading DEM metadata:")
  /\ pc' = "failed"
  /\ UNCHANGED <<argv, opts, calls>>
  /\ UNCHANGED <<tilingVars, regionVars, encoderVars, runVars>>

\* lines 50-57: generateTerrainTiles resolves
GenerateResolves ==
  /\ pc = "generate"
  /\ pc' = "returned"
  /\ UNCHANGED <<cliVars, tilingVars, regionVars, encoderVars, runVars>>

\* lines 50-56: generateTerrainTiles rejects
GenerateRejects ==
  /\ pc = "generate"
  /\ pc' = "failed"
  /\ UNCHANGED <<cliVars, tilingVars, regionVars, encoderVars, runVars>>

NextCli ==
  \/ Run
  \/ MetadataResolves \/ MetadataRejects
  \/ GenerateResolves \/ GenerateRejects

SpecCli == InitCli /\ [][NextCli]_vars


(* ------------------- properties of the tiling scheme ------------------- *)

Range(q) == { q[i] : i \in 1..Len(q) }

RECURSIVE SumOfLengths(_, _)
SumOfLengths(levels, zs) ==
  IF zs = {} THEN 0
  ELSE LET z == CHOOSE k \in zs : TRUE
       IN  Len(levels[z]) + SumOfLengths(levels, zs \ {z})

\* the tiles of the 2^z x 2^z grid
GridTiles(z) == { Tile(i, j, z) : i \in 0..(2^z - 1), j \in 0..(2^z - 1) }

InGrid(t) == 0 <= t.x /\ t.x < 2^(t.z) /\ 0 <= t.y /\ t.y < 2^(t.z)

\* two rectangles share more than an edge or a corner
OverlapsInterior(a, b) ==
  a[1] < b[3] /\ b[1] < a[3] /\ a[2] < b[4] /\ b[2] < a[4]

GlobalBbox == <<-180 * Deg, -85 * Deg, 180 * Deg, 85 * Deg>>

\* C1: getTilesInBounds([-180,-85,180,85], 0) returns exactly the tile
\* (0,0,0), and at zoom 1 exactly the 4 tiles with x, y in {0, 1}.
C1_GlobalBoundsTiles ==
  (pc = "tiles" /\ bbox = GlobalBbox) =>
     /\ zoom = 0 => tiles = << Tile(0, 0, 0) >>
     /\ zoom = 1 => /\ Len(tiles) = 4
                    /\ Range(tiles) = GridTiles(1)

\* C2: every tile that getTilesInBounds or generateTilingScheme produces for
\* a bbox within -180..180 x -85.05..85.05 has 0 <= x < 2^z and 0 <= y < 2^z.
C2_TilesInGrid ==
  /\ pc = "tiles" => \A i \in 1..Len(tiles) : InGrid(tiles[i])
  /\ pc = "scheme" =>
       \A z \in DOMAIN scheme.levels :
         \A i \in 1..Len(scheme.levels[z]) : InGrid(scheme.levels[z][i])

CellIntersects(b, t) ==
  t[1] <= b[3] /\ t[3] > b[1] /\ t[4] >= b[2] /\ t[2] < b[4]

C8_SchemeLevelsAndTotal ==
  pc = "scheme" =>
    /\ DOMAIN scheme.levels = minZoom..maxZoom
    /\ \A z \in minZoom..maxZoom :
         scheme.levels[z] = getTilesInBounds(bbox, z)
    /\ scheme.totalTiles = SumOfLengths(scheme.levels, DOMAIN scheme.levels)
    /\ scheme.bbox = bbox /\ scheme.minZoom = minZoom /\ scheme.maxZoom = maxZoom

\* a finished scheme of at least two levels, none of them empty
C8_Witness ==
  /\ pc = "scheme"
  /\ minZoom < maxZoom
  /\ scheme.totalTiles > Cardinality(DOMAIN scheme.levels)

\* C9: for a bbox with minLon < maxLon and minLat < maxLat, a level of the
\* scheme never has fewer tiles than the level below it.
C9_CountMonotonic ==
  (pc = "scheme" /\ bbox[1] < bbox[3] /\ bbox[2] < bbox[4]) =>
    \A z \in minZoom..(maxZoom - 1) :
      Len(scheme.levels[z + 1]) >= Len(scheme.levels[z])

\* a finished scheme whose tile count grows strictly from one level to the next
C9_Witness ==
  /\ pc = "scheme"
  /\ \E z \in minZoom..(maxZoom - 1) :
       Len(scheme.levels[z + 1]) > Len(scheme.levels[z])

(* --------------- properties of the projection and quadtree ------------- *)

C6_ParentAndSiblings ==
  /\ pc \in {"parent", "siblings"} =>
       IF tile.z = 0 THEN parent = <<>>
       ELSE parent = << Tile(tile.x \div 2, tile.y \div 2, tile.z - 1) >>
  /\ pc = "siblings" =>
       /\ tile.z > 0
       /\ Len(siblings) = 4
       /\ Cardinality(Range(siblings)) = 4
       /\ tile \in Range(siblings)

\* the children of the parent of a tile with odd x and y
C6_Witness ==
  /\ pc = "siblings"
  /\ tile.x % 2 = 1 /\ tile.y % 2 = 1
  /\ siblings[4] = tile

\* C7: getChildTiles(t) is the 4 pairwise distinct tiles (2x,2y), (2x+1,2y),
\* (2x,2y+1), (2x+1,2y+1) at zoom z+1, and getParentTile of each is t.
C7_ChildrenAndTheirParent ==
  /\ pc \in {"children", "childParents"} =>
       /\ Len(children) = 4
       /\ Range(children) =
            { Tile(2 * tile.x + i, 2 * tile.y + j, tile.z + 1) :
                i \in {0, 1}, j \in {0, 1} }
       /\ \A i, j \in 1..4 : i # j => children[i] # children[j]
  /\ pc = "childParents" =>
       /\ Len(childParents) = 4
       /\ \A i \in 1..4 : childParents[i] = << tile >>

\* the parents of the children of a tile that is not the root
C7_Witness ==
  /\ pc = "childParents"
  /\ tile.z > 0 /\ tile.x > 0
  /\ Len(childParents) = 4

(* ------------------------ properties of bboxIntersects ----------------- *)

ProperRect(r) == r[1] <= r[3] /\ r[2] <= r[4]

\* the two closed rectangles have a point in common
SharePoint(a, b) ==
  \E px \in Coords, py \in Coords :
    /\ a[1] <= px /\ px <= a[3] /\ a[2] <= py /\ py <= a[4]
    /\ b[1] <= px /\ px <= b[3] /\ b[2] <= py /\ py <= b[4]

\* C5: bboxIntersects(a, b) = bboxIntersects(b, a) for all a and b, and two
\* rectangles that share only an edge or a corner intersect.
C5_SymmetricAndTouching ==
  /\ pc = "both" => hits.ab = hits.ba
  /\ ( /\ pc \in {"ab", "both"}
       /\ ProperRect(boxes[1]) /\ ProperRect(boxes[2])
       /\ SharePoint(boxes[1], boxes[2])
       /\ ~ OverlapsInterior(boxes[1], boxes[2]) ) => hits.ab

\* both calls made on [0,0,10,10] and [10,0,20,10], which share an edge
C5_Witness ==
  /\ pc = "both"
  /\ boxes = << <<0, 0, 10, 10>>, <<10, 0, 20, 10>> >>
  /\ hits.ab /\ hits.ba

(* ------------------------ properties of extractRegion ------------------ *)

\* result[t] === sourceData[i] in JavaScript: both numbers and equal
StrictEquals(f, e) == ~ f.nan /\ ~ e.undef /\ f.v = e.v

\* the source index the cell (row, col) of the window is read from
SourceIdx(row, col) == (region.y + row) * region.sourceWidth + (region.x + col)

\* the window lies inside the raster, as the callers must guarantee
WindowInside ==
  /\ region.x + region.width <= region.sourceWidth
  /\ (region.y + region.height) * region.sourceWidth <= Len(source.data)

\* C10 as stated (for a window inside the raster): the returned buffer has
\* length w*h, its element at row*w+col equals
\* source[(y+row)*sourceWidth + (x+col)] for every row < h and col < w, and
\* source is unchanged.
C10_CopiesWindowExactly ==
  [][ (pc' = "extracted" /\ WindowInside) =>
        /\ Len(result') = region.width * region.height
        /\ \A row \in 0..(region.height - 1), col \in 0..(region.width - 1) :
             StrictEquals(result'[row * region.width + col + 1],
                          ReadElement(source, SourceIdx(row, col)))
        /\ source' = source ]_vars

\* C10 amended: the returned buffer has length w*h; its element at row*w+col
\* is source[(y+row)*sourceWidth + (x+col)] rounded to a 32-bit float when
\* that index lies inside source, and NaN when it does not; source is
\* unchanged.
C10_CopiesWindowAsFloat32 ==
  [][ pc' = "extracted" =>
        /\ Len(result') = region.width * region.height
        /\ \A row \in 0..(region.height - 1), col \in 0..(region.width - 1) :
             result'[row * region.width + col + 1] =
               IF SourceIdx(row, col) < Len(source.data)
                 THEN Num(Fround(source.data[SourceIdx(row, col) + 1]))
                 ELSE NaN
        /\ source' = source ]_vars

\* a 2 x 2 window at offset (1, 1) inside a Float64Array raster, with an
\* element that is not the source sample it was read from
C10_Witness ==
  /\ pc = "extracted"
  /\ source.kind = "Float64Array"
  /\ region.x = 1 /\ region.y = 1 /\ region.width = 2 /\ region.height = 2
  /\ WindowInside
  /\ Len(result) = 4
  /\ \E row \in 0..1, col \in 0..1 :
       /\ ~ result[row * 2 + col + 1].nan
       /\ result[row * 2 + col + 1].v # source.data[SourceIdx(row, col) + 1]

(* -------------------- properties of resampleElevationData -------------- *)

\* the source sample at (col, row), as the Float32Array of the result holds it
KeptSample(col, row) ==
  StoreFloat32(AsFrac(rsSource[row * rsDims.sourceWidth + col + 1]))

\* C11: a resize to the source's own width and height returns width * height
\* values, the value at every index being the source's value at that index.
C11_IdentityResizeCopies ==
  (pc = "resampled" /\ rsDims.targetWidth = rsDims.sourceWidth
                    /\ rsDims.targetHeight = rsDims.sourceHeight)
    => /\ Len(rsResult) = rsDims.sourceWidth * rsDims.sourceHeight
       /\ \A i \in 1..Len(rsResult) :
            rsResult[i] = StoreFloat32(AsFrac(rsSource[i]))

\* C12: a 2x2 raster resampled to 4x4 gives 16 values whose four corners
\* (0,0), (3,0), (0,3), (3,3) are the source's corners (0,0), (1,0), (0,1),
\* (1,1).
C12_CornersPreserved ==
  (pc = "resampled"
     /\ rsDims = [sourceWidth |-> 2, sourceHeight |-> 2,
                  targetWidth |-> 4, targetHeight |-> 4])
    => /\ Len(rsResult) = 16
       /\ rsResult[0 * 4 + 0 + 1] = KeptSample(0, 0)
       /\ rsResult[0 * 4 + 3 + 1] = KeptSample(1, 0)
       /\ rsResult[3 * 4 + 0 + 1] = KeptSample(0, 1)
       /\ rsResult[3 * 4 + 3 + 1] = KeptSample(1, 1)

(* ------------------------ properties of the encoders ------------------- *)

\* the samples of the image: the indices both elevationData and the
\* width * height pixels have
Pixels == 1..MinOf(Len(encArgs.elevationData), encArgs.width * encArgs.height)

\* C13: the 16-bit value of every sample v is
\* round(clamp((v - minElevation) / (maxElevation - minElevation), 0, 1) * 65535):
\* it lies in 0..65535, is 0 for v <= minElevation and 65535 for
\* v >= maxElevation, and is 0 for every sample when the two are equal.
C13_HeightmapQuantization ==
  pc = "png" =>
    \A i \in Pixels :
      LET e == encArgs.elevationData[i]
          lo == encArgs.minElevation
          hi == encArgs.maxElevation
          px == readUInt16BE(encResult.buffer, i - 1)
      IN  /\ px \in 0..65535
          /\ (lo = hi) => px = 0
          /\ (lo < hi /\ ~ e.nan) =>
                px = IF e.n <= lo * e.d THEN 0
                     ELSE IF e.n >= hi * e.d THEN 65535
                     ELSE RoundScaled(e.n - lo * e.d, e.d * (hi - lo), 65535)

C13_Witness ==
  /\ pc = "png"
  /\ encArgs.minElevation < encArgs.maxElevation
  /\ \E i, j, k \in Pixels :
       /\ ~ encArgs.elevationData[i].nan
       /\ encArgs.elevationData[i].n < encArgs.minElevation * encArgs.elevationData[i].d
       /\ readUInt16BE(encResult.buffer, i - 1) = 0
       /\ ~ encArgs.elevationData[j].nan
       /\ encArgs.elevationData[j].n > encArgs.maxElevation * encArgs.elevationData[j].d
       /\ readUInt16BE(encResult.buffer, j - 1) = 65535
       /\ readUInt16BE(encResult.buffer, k - 1) \notin {0, 65535}

\* C14: the raw heightmap of n samples has exactly 4 * n bytes, and reading
\* it back as little-endian float32 gives the original sample values exactly.
C14_RawRoundTripExact ==
  pc = "raw" =>
    /\ Len(encResult) = 4 * Len(encArgs.elevationData)
    /\ \A i \in 1..Len(encArgs.elevationData) :
         readFloatLE(encResult, i - 1) = encArgs.elevationData[i]

\* C14, amended: the raw heightmap of n samples has exactly 4 * n bytes, and
\* reading it back as little-endian float32 gives every sample rounded to
\* float32, which is the sample itself when it is a float32 value.
C14_RawRoundTripFloat32 ==
  pc = "raw" =>
    /\ Len(encResult) = 4 * Len(encArgs.elevationData)
    /\ \A i \in 1..Len(encArgs.elevationData) :
         LET e == encArgs.elevationData[i]
         IN  /\ readFloatLE(encResult, i - 1) = StoreFloat32(e)
             /\ (e.nan \/ e.d > 1 \/ Abs(e.n) <= 2^24 \/ e.n % 2 = 0)
                  => readFloatLE(encResult, i - 1) = e

C14_Witness ==
  /\ pc = "raw"
  /\ \E i, j \in 1..Len(encArgs.elevationData) :
       /\ readFloatLE(encResult, i - 1) # encArgs.elevationData[i]
       /\ ~ encArgs.elevationData[j].nan
       /\ encArgs.elevationData[j].n # 0
       /\ readFloatLE(encResult, j - 1) = encArgs.elevationData[j]

\* the fields of the mesh buffer that lie below (from) byte 88
HeaderFields == { k \in 1..Len(encResult.fields) : encResult.fields[k].offset < 88 }
HeightFields == { k \in 1..Len(encResult.fields) : encResult.fields[k].offset >= 88 }

\* the samples of elevationData, none of them NaN
Finite(elevationData) == \A i \in 1..Len(elevationData) : ~ elevationData[i].nan

\* the least and the greatest of finite samples
LeastOf(elevationData) ==
  CHOOSE e \in Range(elevationData) : \A f \in Range(elevationData) : ~ Less(f, e)
GreatestOf(elevationData) ==
  CHOOSE e \in Range(elevationData) : \A f \in Range(elevationData) : ~ Less(e, f)

\* C15: the mesh buffer has exactly 88 + 2 * width * height bytes: a header
\* of 88 bytes (center, min/max height, placeholders) followed by
\* width * height little-endian signed 16-bit heights, each in 0..32767 and
\* equal to round(normalized * 32767), normalized being (v - min) / (max - min)
\* and 0 for every sample when the range is 0.
C15_MeshLayoutAndHeights ==
  pc = "mesh" =>
    LET data == encArgs.elevationData
        n == encArgs.width * encArgs.height
        fields == encResult.fields
    IN  /\ encResult.length = 88 + 2 * n
        /\ \A k \in HeaderFields : fields[k].type \in {"DoubleLE", "FloatLE"}
        /\ \A b \in 0..87 : \E k \in HeaderFields :
             /\ fields[k].offset <= b
             /\ b < fields[k].offset + SizeOf(fields[k].type)
        /\ \A k, l \in 1..Len(fields) :
             k < l => fields[k].offset + SizeOf(fields[k].type) <= fields[l].offset
        /\ Cardinality(HeightFields) = n
        /\ \A i \in 1..n :
             \E k \in HeightFields :
               /\ fields[k].offset = 88 + 2 * (i - 1)
               /\ fields[k].type = "Int16LE"
               /\ fields[k].value \in 0..32767
               /\ (i <= Len(data) /\ Finite(data)) =>
                    LET lo == LeastOf(data)
                        hi == GreatestOf(data)
                        e == data[i]
                    IN  fields[k].value =
                          IF lo = hi THEN 0
                          ELSE IF e = hi THEN 32767
                          ELSE RoundScaled((e.n * lo.d - lo.n * e.d) * hi.d,
                                           e.d * (hi.n * lo.d - lo.n * hi.d), 32767)

C15_Witness ==
  /\ pc = "mesh"
  /\ encArgs.width * encArgs.height >= 3
  /\ \E k, l, m \in HeightFields :
       /\ encResult.fields[k].value = 0
       /\ encResult.fields[l].value = 32767
       /\ encResult.fields[m].value \notin {0, 32767}

(* --------------------------- properties of a run ----------------------- *)

\* the positions of the trace where a step was taken, and the tiles it was
\* taken for
Events(step) == { k \in 1..Len(trace) : trace[k].step = step }
TilesWith(step) == { trace[k].tile : k \in Events(step) }

\* the tiles of the scheme the loops have dealt with (emitted or skipped)
HandledTiles ==
  UNION { { tilingScheme.levels[z][i] :
              i \in { j \in 1..Len(tilingScheme.levels[z]) :
                        z < runZoom \/ (z = runZoom /\ j < tileIdx) } } :
          z \in DOMAIN tilingScheme.levels }

\* the invariant of a decoded raster
ValidRaster(r) ==
  /\ r.metadata.bbox[1] < r.metadata.bbox[3]
  /\ r.metadata.bbox[2] < r.metadata.bbox[4]
  /\ r.metadata.width > 0 /\ r.metadata.height > 0
  /\ Len(r.data.data) = r.metadata.width * r.metadata.height

\* {outputDir}/{z}/{x} and {outputDir}/{z}/{x}/{y}.png
TileDir(t) ==
  options.outputDir \o "/" \o ToString(t.z) \o "/" \o ToString(t.x)
TileFile(t) == TileDir(t) \o "/" \o ToString(t.y) \o ".png"

DescriptorFile == options.outputDir \o "/layer.json"

\* two proper rectangles have a point in common: on each axis the greater
\* of the two lower ends is not above the lesser of the two upper ends
RectanglesMeet(a, b) ==
  /\ MaxOf(a[1], b[1]) <= MinOf(a[3], b[3])
  /\ MaxOf(a[2], b[2]) <= MinOf(a[4], b[4])

\* C16: a tile of the scheme is skipped (nothing is extracted, encoded or
\* emitted for it and the run goes on) exactly when its rectangle does not
\* intersect the raster's bbox; every tile whose rectangle intersects it is
\* extracted, encoded and emitted.
C16_SkippedIffDisjoint ==
  ProperRect(dem.metadata.bbox) =>
    \A t \in HandledTiles :
      LET touches == RectanglesMeet(ComparedBbox(dem.metadata), Twice(TileBbox(t)))
      IN  /\ (t \in TilesWith("skip")) <=> ~ touches
          /\ ~ touches => t \notin TilesWith("extract") \cup TilesWith("encode")
                                    \cup TilesWith("emit")
          /\ touches => t \in TilesWith("extract") \cap TilesWith("encode")
                                  \cap TilesWith("emit")

C16_Witness ==
  /\ pc = "done"
  /\ ProperRect(dem.metadata.bbox)
  /\ \E t, u \in HandledTiles :
       /\ t \in TilesWith("skip")
       /\ Twice(TileBbox(t))[1] > ComparedBbox(dem.metadata)[3]
       /\ TileBbox(u)[3] = TileBbox(t)[1]
       /\ u \in TilesWith("emit")

\* the tiles emitted at zoom z
EmittedAt(z) == { t \in TilesWith("emit") : t.z = z }

\* C17: in the descriptor written at the end of a run, the available entry
\* of each zoom z has startX/endX equal to the least/greatest x and
\* startY/endY equal to the least/greatest y of the tiles emitted at zoom z.
C17_AvailableFromEmitted ==
  pc = "done" =>
    LET json == disk.files[DescriptorFile]
    IN  /\ Len(json.available) = options.maxLevel + 1
        /\ \A z \in 0..options.maxLevel :
             EmittedAt(z) # {} =>
               LET xs == { t.x : t \in EmittedAt(z) }
                   ys == { t.y : t \in EmittedAt(z) }
                   entry == json.available[z + 1][1]
               IN  /\ Len(json.available[z + 1]) = 1
                   /\ \A v \in xs : entry.startX <= v /\ v <= entry.endX
                   /\ \A v \in ys : entry.startY <= v /\ v <= entry.endY
                   /\ entry.startX \in xs /\ entry.endX \in xs
                   /\ entry.startY \in ys /\ entry.endY \in ys

\* C18: for each non-skipped tile the orchestrator makes exactly one call
\* writeTile(outputDir, z, x, y, encodedBytes, '.png'), which leaves the bytes
\* at {outputDir}/{z}/{x}/{y}.png in the directory {outputDir}/{z}/{x}; no
\* tile is emitted twice and no skipped tile is emitted.
C18_OneWritePerTile ==
  /\ \A k \in Events("emit") :
       LET t == trace[k].tile
           bytes == trace[k].args[5]
       IN  /\ trace[k].args = <<options.outputDir, t.z, t.x, t.y, bytes, ".png">>
           /\ bytes = encodeHeightmapPNG(
                        extractTileData(dem.data, dem.metadata,
                                        tileToBounds(t.x, t.y, t.z),
                                        options.tileSize).data,
                        options.tileSize, options.tileSize,
                        dem.metadata.minElevation, dem.metadata.maxElevation)
           /\ TileDir(t) \in disk.dirs
           /\ TileFile(t) \in DOMAIN disk.files
           /\ disk.files[TileFile(t)] = bytes
           /\ t \in HandledTiles
           /\ t \notin TilesWith("skip")
           /\ \A l \in Events("emit") : trace[l].tile = t => l = k
  /\ \A t \in HandledTiles :
       t \notin TilesWith("skip") => t \in TilesWith("emit")
  /\ Cardinality(Events("emit")) = tilesProcessed

C18_Witness ==
  /\ pc = "done"
  /\ \E k, l \in Events("emit") :
       /\ trace[k].tile.x # trace[k].tile.y
       /\ trace[l].tile.z > trace[k].tile.z
       /\ trace[k].args[5] # trace[l].args[5]

\* C19: a run configured with { tileSize, maxLevel, minLevel } generates
\* tiles for exactly the zoom levels minLevel..maxLevel, and the descriptor's
\* minzoom and maxzoom are minLevel and maxLevel.
C19_LevelsFromMinLevel ==
  (pc = "done" /\ ValidRaster(dem)) =>
    /\ { t.z : t \in TilesWith("emit") } = options.minLevel..options.maxLevel
    /\ disk.files[DescriptorFile].minzoom = options.minLevel
    /\ disk.files[DescriptorFile].maxzoom = options.maxLevel

\* C20: when the decoded raster is invalid, the run fails before any tile is
\* extracted, encoded or emitted and before any descriptor is written.
C20_InvalidRasterRejected ==
  (pc # "init" /\ ~ ValidRaster(dem)) =>
    /\ trace = <<>>
    /\ disk.files = <<>>
    /\ pc # "done"

(* --------------------- the run as a state machine ---------------------- *)

\* the steps of the trace that belong to a tile
TileEvents == { k \in 1..Len(trace) : trace[k].tile # NoTile }

\* every tile of the scheme, levels 0..maxLevel
SchemeTiles ==
  UNION { { tilingScheme.levels[z][i] : i \in 1..Len(tilingScheme.levels[z]) } :
          z \in DOMAIN tilingScheme.levels }

\* the steps a tile goes through, in order
StepsOfTile(t) ==
  SelectSeq([k \in 1..Len(trace) |-> [step |-> trace[k].step, tile |-> trace[k].tile]],
            LAMBDA e : e.tile = t)

StepNames(q) == [k \in 1..Len(q) |-> q[k].step]

\* C21: a run processes the zoom levels in increasing order; each tile is
\* either skipped or extracted (and resampled), encoded and emitted, in that
\* order; a tile's emit completes before the next tile's processing starts;
\* the descriptor is written exactly once, only after the last tile of the
\* last level has been emitted or skipped.
C21_RunStateMachine ==
  /\ \A k, l \in TileEvents :
       k < l => /\ trace[k].tile.z <= trace[l].tile.z
                /\ trace[k].tile = trace[l].tile =>
                     \A m \in k..l : trace[m].tile = trace[k].tile
  /\ \A t \in TilesWith("skip") \cup TilesWith("extract") :
       LET names == StepNames(StepsOfTile(t))
       IN  names \in { <<"skip">>, <<"extract">>, <<"extract", "encode">>,
                       <<"extract", "encode", "emit">> }
  /\ \A t \in HandledTiles :
       StepNames(StepsOfTile(t)) \in { <<"skip">>, <<"extract", "encode", "emit">> }
  /\ \A k \in Events("finalize") :
       /\ k = Len(trace)
       /\ Events("finalize") = {k}
       /\ HandledTiles = SchemeTiles
       /\ DOMAIN tilingScheme.levels = 0..options.maxLevel
       /\ pc = "done"
  /\ pc = "done" => /\ Cardinality(Events("finalize")) = 1
                    /\ DescriptorFile \in DOMAIN disk.files
  /\ pc # "done" => DescriptorFile \notin DOMAIN disk.files

C21_Witness ==
  /\ pc = "done"
  /\ options.maxLevel >= 1
  /\ \E k, l \in Events("emit") :
       /\ k < l
       /\ trace[k].tile.z = trace[l].tile.z
       /\ trace[k].tile # trace[l].tile
  /\ \E k, l \in Events("emit") : trace[k].tile.z < trace[l].tile.z

(* ------------------------- aborted runs -------------------------------- *)

\* the bytes a run with the raster r and the options o emits for tile t
BytesOf(r, o, t) ==
  encodeHeightmapPNG(
    extractTileData(r.data, r.metadata, tileToBounds(t.x, t.y, t.z), o.tileSize).data,
    o.tileSize, o.tileSize, r.metadata.minElevation, r.metadata.maxElevation)

\* the bytes a run emits for tile t, as a completed run produces them
CompletedBytes(t) == BytesOf(dem, options, t)

EmittedFiles == { TileFile(t) : t \in TilesWith("emit") }

\* the file of the tile the run was working on when it stopped
FileInProgress ==
  IF /\ runZoom \in DOMAIN tilingScheme.levels
     /\ tileIdx \in 1..Len(tilingScheme.levels[runZoom])
    THEN { TileFile(CurrentTile) }
    ELSE {}

\* the emitted tiles are in place, with their directories and their bytes
EmittedTilesInPlace ==
  \A t \in TilesWith("emit") :
    /\ TileDir(t) \in disk.dirs
    /\ TileFile(t) \in DOMAIN disk.files
    /\ disk.files[TileFile(t)] = CompletedBytes(t)

\* C22 as stated: after an abort the files in place are exactly the tiles
\* emitted before the failure, each as a completed run leaves it.
C22_ExactlyEmittedTilesLeft ==
  pc = "failed" =>
    /\ DOMAIN disk.files = EmittedFiles
    /\ EmittedTilesInPlace

\* C22 (amended): after an abort every tile emitted before the failure is in
\* place with the bytes a completed run gives it; nothing else is in place
\* except, possibly, the file of the tile whose write failed, cut short; no
\* descriptor is written.
C22_NoRollback ==
  pc = "failed" =>
    /\ EmittedTilesInPlace
    /\ EmittedFiles \subseteq DOMAIN disk.files
    /\ (DOMAIN disk.files) \ EmittedFiles \subseteq FileInProgress
    /\ \A f \in (DOMAIN disk.files) \ EmittedFiles : disk.files[f] = <<>>
    /\ DescriptorFile \notin DOMAIN disk.files

C22_Witness ==
  /\ pc = "failed"
  /\ Cardinality(TilesWith("emit")) >= 2
  /\ FileInProgress \cap EmittedFiles = {}
  /\ FileInProgress \cap DOMAIN disk.files # {}

(* -------------------- tiles are independent ---------------------------- *)

CallsOf(fn) == { k \in 1..Len(calls) : calls[k].fn = fn }

\* an output directory is given (an empty text names none)
WithOutput == Given(argv.output) /\ argv.output[1] # <<>>

\* the command line passes commander: --input is given, --workers is valid
Parsed == ParseArgs(argv).ok

\* C24: with --metadata the DEM metadata is read and displayed and
\* generateTerrainTiles is never invoked; without --metadata and without an
\* output directory run fails before generateTerrainTiles is invoked;
\* otherwise generateTerrainTiles is invoked exactly once, with a tileSize
\* and a maxLevel that are numbers.
C24_OutputRequiredUnlessMetadata ==
  /\ Cardinality(CallsOf("generateTerrainTiles")) <= 1
  /\ (Parsed /\ pc # "run") =>
       /\ argv.metadata =>
            /\ CallsOf("generateTerrainTiles") = {}
            /\ Cardinality(CallsOf("readDEMMetadata")) = 1
            /\ pc = "returned" =>
                 /\ shown = <<"metadata">>
                 /\ Cardinality(CallsOf("formatMetadata")) = 1
       /\ (~ argv.metadata /\ ~ WithOutput) =>
            /\ pc = "failed"
            /\ calls = <<>>
       /\ (~ argv.metadata /\ WithOutput) =>
            /\ Len(calls) = 1
            /\ calls[1].fn = "generateTerrainTiles"
            /\ calls[1].args[1].outputDir = Str(argv.output[1])
            /\ calls[1].args[1].inputPath = Str(argv.input[1])
            /\ calls[1].args[1].tileSize.type = "number"
            /\ calls[1].args[1].maxLevel.type = "number"
            /\ Given(argv.tileSize) =>
                 calls[1].args[1].tileSize.value = StringToNumber(argv.tileSize[1])

C24_Witness ==
  /\ pc = "returned"
  /\ ~ argv.metadata
  /\ Given(argv.tileSize) /\ Given(argv.maxLevel)
  /\ Cardinality(CallsOf("generateTerrainTiles")) = 1
  /\ calls[1].args[1].tileSize = NumberValue(Frac(3, 2))
  /\ calls[1].args[1].maxLevel = NumberValue(Frac(2, 1))

(* ------------------------- the pixel window ---------------------------- *)

\* the window extractTileData computes for tile t
WindowOf(t) == tileWindow(dem.metadata, tileToBounds(t.x, t.y, t.z))

\* the indices of sourceData that extractRegion reads for the window w
IndicesRead(w) ==
  { (w.y0 + row) * dem.metadata.width + (w.x0 + col) :
      row \in 0..(w.extractHeight - 1), col \in 0..(w.extractWidth - 1) }

\* C25: for every non-skipped tile the window handed to extractRegion lies
\* inside the raster: 0 <= x0, x0 + extractWidth <= demWidth, 0 <= y0,
\* y0 + extractHeight <= demHeight, and extractRegion reads no index outside
\* [0, demWidth * demHeight).
C25_WindowInsideRaster ==
  \A t \in TilesWith("extract") :
    LET w == WindowOf(t)
    IN  /\ 0 <= w.x0
        /\ w.x0 + w.extractWidth <= dem.metadata.width
        /\ 0 <= w.y0
        /\ w.y0 + w.extractHeight <= dem.metadata.height
        /\ \A i \in IndicesRead(w) :
             0 <= i /\ i < dem.metadata.width * dem.metadata.height

C25_Witness ==
  /\ pc = "done"
  /\ \E t \in TilesWith("extract") :
       /\ WindowOf(t).x0 > 0
       /\ WindowOf(t).extractWidth >= 1
       /\ WindowOf(t).extractHeight >= 1
       /\ WindowOf(t).x1 = dem.metadata.width - 1
       /\ IndicesRead(WindowOf(t)) # {}

(* ------------------------- the tile buffer ----------------------------- *)

\* the window of tile t already has the size of a tile (direct path)
DirectPath(t) ==
  /\ WindowOf(t).extractWidth = options.tileSize
  /\ WindowOf(t).extractHeight = options.tileSize

\* what extractTileData returns for tile t
TileDataOf(t) ==
  extractTileData(dem.data, dem.metadata, tileToBounds(t.x, t.y, t.z),
                  options.tileSize).data

\* C26: for every non-skipped tile the buffer extractTileData returns, which
\* is the buffer passed to the encoder, has exactly tileSize * tileSize
\* samples, on the direct path and on the resample path.
C26_TileBufferSize ==
  /\ \A t \in TilesWith("extract") :
       Len(TileDataOf(t)) = options.tileSize * options.tileSize
  /\ pc \in {"encode", "emit"} =>
       /\ tileElevationData = TileDataOf(CurrentTile)
       /\ Len(tileElevationData) = options.tileSize * options.tileSize

C26_Witness ==
  /\ pc = "emit"
  /\ options.tileSize = 2
  /\ Len(tileElevationData) = 4
  /\ \E t, u \in TilesWith("extract") :
       /\ DirectPath(t)
       /\ ~ DirectPath(u)
       /\ WindowOf(u).extractWidth >= 1 /\ WindowOf(u).extractHeight >= 1

\* C27: for every tile of the scheme that passes the intersection test, a
\* tile that only touches the raster's bbox along an edge included, the
\* window extractTileData computes is non-empty: extractWidth >= 1 and
\* extractHeight >= 1, so the resampler receives at least one source sample.
C27_WindowNonEmpty ==
  ValidRaster(dem) =>
    \A t \in TilesWith("extract") :
      /\ WindowOf(t).extractWidth >= 1
      /\ WindowOf(t).extractHeight >= 1
      /\ Len(extractRegion(dem.data, dem.metadata.width, WindowOf(t).x0,
                           WindowOf(t).y0, WindowOf(t).extractWidth,
                           WindowOf(t).extractHeight)) >= 1

(* ------------------------ no tile is skipped --------------------------- *)

\* C28: every tile generateTilingScheme lists for the raster's bbox passes
\* the orchestrator's bboxIntersects test against that bbox, so no tile is
\* skipped, the tilesProcessed counter never exceeds tilingScheme.totalTiles
\* and in a run that completes it ends equal to it.
C28_NoTileSkipped ==
  pc \notin {"init", "scheme"} =>
    /\ \A t \in SchemeTiles :
         bboxIntersects(ComparedBbox(dem.metadata), Twice(TileBbox(t)))
    /\ TilesWith("skip") = {}
    /\ tilesProcessed <= tilingScheme.totalTiles
    /\ tilesProcessed = Cardinality(HandledTiles)
    /\ tilingScheme.totalTiles = Cardinality(SchemeTiles)
    /\ pc \in {"finalize", "done"} => tilesProcessed = tilingScheme.totalTiles

(* ------------------- the resampler's source cell ------------------------ *)

\* the target pixels of the call
TargetPixels ==
  { <<tx, ty>> : tx \in 0..(rsDims.targetWidth - 1), ty \in 0..(rsDims.targetHeight - 1) }

CellOf(p) ==
  SourceCell(rsDims.sourceWidth, rsDims.sourceHeight, rsDims.targetWidth,
             rsDims.targetHeight, p[1], p[2])

\* the four samples read for the target pixel p
FourSamples(p) ==
  LET c == CellOf(p)
  IN  { ReadSample(rsSource, c.y0 * rsDims.sourceWidth + c.x0),
        ReadSample(rsSource, c.y0 * rsDims.sourceWidth + c.x1),
        ReadSample(rsSource, c.y1 * rsDims.sourceWidth + c.x0),
        ReadSample(rsSource, c.y1 * rsDims.sourceWidth + c.x1) }

\* the element of the result written for the target pixel p
OutputAt(p) == rsResult[p[2] * rsDims.targetWidth + p[1] + 1]

\* the indices are inside the source and the weights are in [0, 1)
CellInsideSource(p) ==
  LET c == CellOf(p)
  IN  /\ 0 <= c.x0 /\ c.x0 <= c.x1 /\ c.x1 <= rsDims.sourceWidth - 1
      /\ 0 <= c.y0 /\ c.y0 <= c.y1 /\ c.y1 <= rsDims.sourceHeight - 1
      /\ 0 <= c.xFrac /\ c.xFrac < rsDims.targetWidth
      /\ 0 <= c.yFrac /\ c.yFrac < rsDims.targetHeight

\* the fraction f is a number between the least and the greatest of samples
BetweenSamples(f, samples) ==
  /\ ~ f.nan
  /\ \A s \in samples : ~ s.nan
  /\ \E s \in samples : s.v * f.d <= f.n
  /\ \E s \in samples : f.n <= s.v * f.d

C30_RunTerminates == <>(pc \in {"done", "failed"})

====
